---------------------------- MODULE Spec2Model ----------------------------
(***************************************************************************)
(* SYKE: dependency graph store, SCC engine, memoised impact analyser,     *)
(* incremental updater and file watcher.                                   *)
(*                                                                         *)
(* File identifiers are the strings of AllFiles (normalised absolute       *)
(* paths).  A file's content is a sequence of lines; a line is either the  *)
(* token Code or the identifier of the file an import statement on that    *)
(* line resolves to.  JavaScript Maps are functions whose DOMAIN is the    *)
(* key set, arrays are sequences, and array/SCC indices are 1-based here   *)
(* (0-based in the source).                                                *)
(***************************************************************************)
EXTENDS Integers, Sequences, FiniteSets, TLC

VARIABLES
  disk,      \* the filesystem: Map existing file -> content
  fcache,    \* FileCache.cache: file -> content (Map abs path -> content)
  pending,   \* FileCache.debounceTimers: the paths with an armed timer
  graph,     \* the DependencyGraph object: files, forward, reverse, scc
  memo,      \* the closure state of createMemoCache
  last,      \* the last operation performed, its arguments and its result
  nEvents,   \* number of filesystem mutations so far (bounded)
  watch,     \* FileCache's watchers and timers, the clock, and their history
  fcGraph,   \* FileCache.graph: Undefined while it is the object getGraph
             \* returns (cachedGraph), Some(G) when it is another object
  coupling,  \* change-coupling.ts: cachedResult and cachedProjectRoot
  vcs,       \* the environment of the miner: commit history per project
             \* root, and the clock Date.now() reads
  warningStore \* server.ts: the stored warnings, newest first

vars ==
  <<disk, fcache, pending, graph, memo, last, nEvents, watch, fcGraph, coupling, vcs,
    warningStore>>

-----------------------------------------------------------------------------
(* Bounds *)

MaxImports == 2     \* import lines per file content
MaxEvents == 1      \* filesystem mutations in one behaviour of Spec
MaxGraphEvents == 2 \* filesystem mutations in one behaviour of SpecGraph
MaxQueries == 2     \* memo lookups (hits + misses) in one behaviour
MaxCap == 2         \* largest maxSize a memo cache is created with
MaxImpactLen == 1   \* length of an impactSet handed to set() directly
MaxAffected == 2    \* length of an affectedFiles list handed to invalidate() directly
MaxWatchEvents == 3 \* filesystem notifications in one behaviour of SpecWatch
MaxTicks == 6       \* clock advances in one behaviour of SpecWatch
MaxReplayEvents == 1 \* filesystem mutations in one behaviour of SpecReplay
MaxApplies == 2     \* applications of one event in a row in SpecReplay
MaxImporters == 10  \* files besides the hub in a project of SpecHub
MaxTopN == 3        \* largest topN handed to getHubFiles
MaxEdits == 2       \* filesystem mutations in one behaviour of SpecEdits
MaxEditImports == 1 \* import lines of a content written in SpecEdits
MaxRefreshEdits == 1 \* filesystem mutations in one behaviour of SpecRefresh
MaxCommits == 4     \* commits in the history of a repository of SpecMine
MaxMineTicks == 3   \* clock advances in one behaviour of SpecCoupling

(* Program constants *)

DefaultMaxSize == 500
HighThreshold == 10
MediumThreshold == 5
LowThreshold == 1
DEBOUNCE_MS == 1500

AllFiles == {"a", "b", "c"}
Code == "code"

\* The files of a larger project: a hub file and the files that come to
\* depend on it
HubFile == "h"
Importers ==
  SubSeq(<<"u", "v", "w", "m", "n", "o", "p", "q", "r", "s", "t", "x">>, 1, MaxImporters)

\* An optional value: undefined, or the value wrapped
Undefined == <<>>
Some(v) == <<v>>

-----------------------------------------------------------------------------
(* Arrays, Sets and Maps of the JavaScript runtime *)

Range(s) == {s[i] : i \in DOMAIN s}

Includes(s, x) == \E i \in DOMAIN s : s[i] = x

\* Array.prototype.indexOf: the first index of x, 0 when x does not occur
IndexOf(s, x) ==
  IF Includes(s, x) THEN CHOOSE i \in DOMAIN s : s[i] = x /\ \A j \in 1..(i-1) : s[j] # x
  ELSE 0

\* Array.prototype.splice(idx, 1)
Splice(s, idx) == SubSeq(s, 1, idx - 1) \o SubSeq(s, idx + 1, Len(s))

\* const idx = list.indexOf(x); if (idx !== -1) list.splice(idx, 1)
RemoveFirst(s, x) == IF IndexOf(s, x) = 0 THEN s ELSE Splice(s, IndexOf(s, x))

\* [...new Set(s)]: the distinct elements of s in order of first occurrence
Distinct(s) == SelectSeq([i \in DOMAIN s |-> <<i, s[i]>>],
                         LAMBDA p : \A j \in 1..(p[1]-1) : s[j] # p[2])

Dedup(s) == [i \in DOMAIN Distinct(s) |-> Distinct(s)[i][2]]

Reverse(s) == [i \in 1..Len(s) |-> s[Len(s) + 1 - i]]

EmptyMap == <<>>

MapHas(m, k) == k \in DOMAIN m

\* m.get(k) || dflt
MapGet(m, k, dflt) == IF k \in DOMAIN m THEN m[k] ELSE dflt

MapPut(m, k, v) == [x \in (DOMAIN m) \cup {k} |-> IF x = k THEN v ELSE m[x]]

MapDel(m, k) == [x \in (DOMAIN m) \ {k} |-> m[x]]

SeqsUpTo(S, n) == UNION {[1..k -> S] : k \in 0..n}

-----------------------------------------------------------------------------
(* Language plugin: parseImports *)

ImportSeqs == SeqsUpTo(AllFiles, MaxImports)

\* The contents a file can have: the empty file, or a line of code followed
\* by import lines.
Contents == {<<>>} \cup {<<Code>> \o s : s \in ImportSeqs}

Exists(d, f) == f \in DOMAIN d

\* parseImports reads the file (an unreadable file gives []), scans it line
\* by line, and pushes the resolved path of every import line whose target
\* is found on the filesystem.  Nothing is deduplicated.
parseImports(d, f) ==
  IF ~Exists(d, f) THEN <<>>
  ELSE SelectSeq(d[f], LAMBDA l : l # Code /\ Exists(d, l))

\* getSourceDirs: the project's source directories in enumeration order, each
\* with the paths it can hold in directory order (a single-directory project).
SourceDirs == << <<"a", "b", "c", HubFile>> \o Importers >>

\* discoverFiles(dir): the files present in the directory
discoverFiles(d, dir) == SelectSeq(dir, LAMBDA f : Exists(d, f))


\* const x = v; F(x): the value is computed once and then named
With(v, F(_)) == F(v)

RECURSIVE FoldSeq(_, _, _)
\* for (const x of s) acc = Op(acc, x)
FoldSeq(Op(_, _), acc, s) ==
  IF s = <<>> THEN acc ELSE FoldSeq(Op, Op(acc, Head(s)), Tail(s))

-----------------------------------------------------------------------------
(* SCC engine: Tarjan, condensation, Kahn *)

RECURSIVE strongConnect(_, _, _)
RECURSIVE visitSuccessors(_, _, _, _)

\* The body of the loop over the successors of node, from the i-th on.
\* st: [index, lowlink: Map file -> number, onStack: Set, stack: array,
\*      components: array of arrays, counter: indexCounter,
\*      entered: the nodes strongConnect was called for, in call order]
visitSuccessors(G, node, i, st) ==
  LET successors == MapGet(G.forward, node, <<>>) IN
  IF i > Len(successors) THEN st
  ELSE
    LET successor == successors[i] IN
    IF ~Includes(G.files, successor) THEN visitSuccessors(G, node, i + 1, st)
    ELSE IF ~MapHas(st.index, successor) THEN
      With(strongConnect(G, successor, st), LAMBDA s1 :
        LET low == IF s1.lowlink[node] < s1.lowlink[successor]
                   THEN s1.lowlink[node] ELSE s1.lowlink[successor]
        IN visitSuccessors(G, node, i + 1, [s1 EXCEPT !.lowlink = MapPut(@, node, low)]))
    ELSE IF successor \in st.onStack THEN
      LET low == IF st.lowlink[node] < st.index[successor]
                 THEN st.lowlink[node] ELSE st.index[successor]
      IN visitSuccessors(G, node, i + 1, [st EXCEPT !.lowlink = MapPut(@, node, low)])
    ELSE visitSuccessors(G, node, i + 1, st)

strongConnect(G, node, st) ==
  LET s0 == [st EXCEPT !.index = MapPut(@, node, st.counter),
                       !.lowlink = MapPut(@, node, st.counter),
                       !.counter = @ + 1,
                       !.entered = Append(@, node),
                       !.stack = Append(@, node),
                       !.onStack = @ \cup {node}]
  IN
  With(visitSuccessors(G, node, 1, s0), LAMBDA s1 :
    IF s1.lowlink[node] = s1.index[node] THEN
      \* pop the stack down to node: the component lists the popped files,
      \* the top of the stack first
      LET pos == IndexOf(s1.stack, node)
          component == Reverse(SubSeq(s1.stack, pos, Len(s1.stack)))
      IN [s1 EXCEPT !.stack = SubSeq(@, 1, pos - 1),
                    !.onStack = @ \ Range(component),
                    !.components = Append(@, component)]
    ELSE s1)

\* nodeToComponent: file -> index of the component that lists it
nodeToComponentOf(components) ==
  [f \in UNION {Range(components[i]) : i \in DOMAIN components} |->
     CHOOSE i \in DOMAIN components :
        /\ Includes(components[i], f)
        /\ \A j \in DOMAIN components : Includes(components[j], f) => j <= i]

\* condenseEdge that pushes on arrays instead of adding to sets
condenseEdgePushing(n2c, acc, file, dep) ==
  IF ~MapHas(n2c, file) \/ ~MapHas(n2c, dep) THEN acc
  ELSE IF n2c[file] = n2c[dep] THEN acc
  ELSE [forward |-> [acc.forward EXCEPT ![n2c[file]] = Append(@, n2c[dep])],
        reverse |-> [acc.reverse EXCEPT ![n2c[dep]] = Append(@, n2c[file])]]

\* One edge of the loops of condenseGraph: acc = [forward, reverse], arrays
\* (insertion-ordered sets) indexed by SCC
condenseEdge(n2c, acc, file, dep) ==
  IF ~MapHas(n2c, file) \/ ~MapHas(n2c, dep) THEN acc
  ELSE IF n2c[file] = n2c[dep] THEN acc
  ELSE
    LET src == n2c[file]
        dst == n2c[dep]
    IN [forward |-> [acc.forward EXCEPT ![src] =
                        IF Includes(@, dst) THEN @ ELSE Append(@, dst)],
        reverse |-> [acc.reverse EXCEPT ![dst] =
                        IF Includes(@, src) THEN @ ELSE Append(@, src)]]

RECURSIVE topologicalLoop(_, _, _, _)
\* The while loop of Kahn's algorithm
topologicalLoop(rev, queue, inDegree, order) ==
  IF queue = <<>> THEN order
  ELSE
    LET current == Head(queue)
        step(acc, dependent) ==
          LET newDegree == acc.inDegree[dependent] - 1 IN
          [inDegree |-> [acc.inDegree EXCEPT ![dependent] = newDegree],
           queue |-> IF newDegree = 0 THEN Append(acc.queue, dependent) ELSE acc.queue]
    IN With(FoldSeq(step, [inDegree |-> inDegree, queue |-> Tail(queue)], rev[current]),
            LAMBDA r : topologicalLoop(rev, r.queue, r.inDegree, Append(order, current)))

\* The order topologicalSort has built when its while loop ends
kahnOrder(nodes, fwd, rev) ==
  LET numNodes == Len(nodes)
      inDegree == [i \in 1..numNodes |-> Len(fwd[i])]
      queue == SelectSeq([i \in 1..numNodes |-> i], LAMBDA i : inDegree[i] = 0)
  IN topologicalLoop(rev, queue, inDegree, <<>>)

\* topologicalSort that lists dependents before their dependencies
topologicalSortDependentsFirst(nodes, fwd, rev) == Reverse(kahnOrder(nodes, fwd, rev))

topologicalSort(nodes, fwd, rev) ==
  With(kahnOrder(nodes, fwd, rev), LAMBDA order :
    IF Len(order) # Len(nodes)
    THEN order \o SelectSeq([i \in 1..Len(nodes) |-> i], LAMBDA i : ~Includes(order, i))
    ELSE order)

condenseGraph(G, components, n2c) ==
  LET nodes == [i \in DOMAIN components |->
                  [index |-> i, files |-> components[i],
                   size |-> Len(components[i]), isCyclic |-> Len(components[i]) > 1]]
      empty == [i \in DOMAIN components |-> <<>>]
      perFile(acc, file) ==
        FoldSeq(LAMBDA a, dep : condenseEdge(n2c, a, file, dep), acc, G.forward[file])
  IN \* graph.forward lists its keys in the insertion order of graph.files
     With(FoldSeq(perFile, [forward |-> empty, reverse |-> empty], G.files), LAMBDA edges :
       [nodes |-> nodes, forward |-> edges.forward, reverse |-> edges.reverse,
        topologicalOrder |-> topologicalSort(nodes, edges.forward, edges.reverse)])

\* The Tarjan state before the first visit
TarjanStart ==
  [index |-> EmptyMap, lowlink |-> EmptyMap, onStack |-> {},
   stack |-> <<>>, components |-> <<>>, counter |-> 0, entered |-> <<>>]

\* tarjan that visits every file of the graph, indexed or not
tarjanRevisiting(G) ==
  FoldSeq(LAMBDA st, file : strongConnect(G, file, st), TarjanStart, G.files)

\* The loop of computeSCC over graph.files: the Tarjan state after it
tarjan(G) ==
  FoldSeq(LAMBDA st, file : IF ~MapHas(st.index, file) THEN strongConnect(G, file, st) ELSE st,
          TarjanStart, G.files)

\* computeSCC that makes every file a component of its own
computeSCCSingletons(G) ==
  With([i \in DOMAIN G.files |-> <<G.files[i]>>], LAMBDA components :
  With(nodeToComponentOf(components), LAMBDA n2c :
    [components |-> components, nodeToComponent |-> n2c,
     condensed |-> condenseGraph(G, components, n2c)]))

computeSCC(G) ==
  IF Len(G.files) = 0 THEN
    [components |-> <<>>, nodeToComponent |-> EmptyMap,
     condensed |-> [nodes |-> <<>>, forward |-> <<>>, reverse |-> <<>>,
                    topologicalOrder |-> <<>>]]
  ELSE
    With(tarjan(G).components, LAMBDA components :
    With(nodeToComponentOf(components), LAMBDA n2c :
      [components |-> components, nodeToComponent |-> n2c,
       condensed |-> condenseGraph(G, components, n2c)]))

-----------------------------------------------------------------------------
(* Graph store: buildGraph *)

\* Set.prototype.add on the insertion-ordered Set graph.files
SetAdd(s, x) == IF Includes(s, x) THEN s ELSE Append(s, x)

\* Set.prototype.delete
SetDelete(s, x) == SelectSeq(s, LAMBDA y : y # x)

\* buildGraph without the final SCC computation: for each source directory,
\* first register the discovered files (up to maxFiles; 0 = no limit), then
\* parse each registered file and keep the imports that are registered.
buildEdgesIn(dirs, d, maxFiles) ==
  LET perDir(g, dir) ==
        LET sourceFiles == discoverFiles(d, dir)
            register(acc, f) ==
              IF maxFiles # 0 /\ Len(acc.files) >= maxFiles THEN acc
              ELSE [acc EXCEPT !.files = SetAdd(@, f),
                               !.forward = IF MapHas(@, f) THEN @ ELSE MapPut(@, f, <<>>)]
            g1 == FoldSeq(register, g, sourceFiles)
            parse(acc, f) ==
              IF ~Includes(acc.files, f) THEN acc
              ELSE
                LET imports == parseImports(d, f)
                    validImports == SelectSeq(imports, LAMBDA imp : Includes(acc.files, imp))
                    rev == FoldSeq(LAMBDA r, imp : MapPut(r, imp, Append(MapGet(r, imp, <<>>), f)),
                                   acc.reverse, validImports)
                IN [acc EXCEPT !.reverse = rev, !.forward = MapPut(@, f, validImports)]
        IN FoldSeq(parse, g1, sourceFiles)
  IN FoldSeq(perDir, [files |-> <<>>, forward |-> EmptyMap, reverse |-> EmptyMap],
             dirs)

\* buildGraph of a project whose source directories are dirs
buildGraphIn(dirs, d, maxFiles) ==
  With(buildEdgesIn(dirs, d, maxFiles), LAMBDA g :
    [files |-> g.files, forward |-> g.forward, reverse |-> g.reverse,
     scc |-> computeSCC(g)])

buildEdges(d, maxFiles) == buildEdgesIn(SourceDirs, d, maxFiles)

buildGraph(d, maxFiles) == buildGraphIn(SourceDirs, d, maxFiles)

\* buildGraphAsync without the final SCC computation: phase 1 registers the
\* discovered files of every source directory (up to maxFiles; 0 = no
\* limit), phase 2 reads the registered files, phase 3 parses each
\* registered file, directory by directory, and keeps the imports that are
\* registered.
buildEdgesAsync(dirs, d, maxFiles) ==
  LET register(acc, f) ==
        IF maxFiles # 0 /\ Len(acc.files) >= maxFiles THEN acc
        ELSE [acc EXCEPT !.files = SetAdd(@, f),
                         !.forward = IF MapHas(@, f) THEN @ ELSE MapPut(@, f, <<>>)]
      discover(g, dir) == FoldSeq(register, g, discoverFiles(d, dir))
      parse(acc, f) ==
        IF ~Includes(acc.files, f) THEN acc
        ELSE
          LET imports == parseImports(d, f)
              validImports == SelectSeq(imports, LAMBDA imp : Includes(acc.files, imp))
              rev == FoldSeq(LAMBDA r, imp : MapPut(r, imp, Append(MapGet(r, imp, <<>>), f)),
                             acc.reverse, validImports)
          IN [acc EXCEPT !.reverse = rev, !.forward = MapPut(@, f, validImports)]
      parseDir(g, dir) == FoldSeq(parse, g, discoverFiles(d, dir))
  IN With(FoldSeq(discover, [files |-> <<>>, forward |-> EmptyMap, reverse |-> EmptyMap],
                  dirs), LAMBDA g1 :
       FoldSeq(parseDir, g1, dirs))

\* buildGraphAsync: [graph, contentMap]
buildGraphAsync(dirs, d, maxFiles) ==
  With(buildEdgesAsync(dirs, d, maxFiles), LAMBDA g :
    [graph |-> [files |-> g.files, forward |-> g.forward, reverse |-> g.reverse,
                scc |-> computeSCC(g)],
     contentMap |-> [f \in Range(g.files) |-> d[f]]])

-----------------------------------------------------------------------------
(* Incremental updater *)

RECURSIVE affectedLoop(_, _, _, _)
\* The while loop of computeAffectedFiles: affected is the insertion-ordered
\* Set, queue the BFS queue, shifted the files queue.shift() has returned;
\* [affected, shifted]
affectedLoop(G, affected, queue, shifted) ==
  IF queue = <<>> THEN [affected |-> affected, shifted |-> shifted]
  ELSE
    LET dependents == MapGet(G.reverse, Head(queue), <<>>)
        step(acc, dep) ==
          IF Includes(acc.affected, dep) THEN acc
          ELSE [affected |-> Append(acc.affected, dep), queue |-> Append(acc.queue, dep)]
    IN With(FoldSeq(step, [affected |-> affected, queue |-> Tail(queue)], dependents),
            LAMBDA r : affectedLoop(G, r.affected, r.queue, Append(shifted, Head(queue))))

computeAffectedFiles(filePath, G) ==
  affectedLoop(G, <<filePath>>, <<filePath>>, <<>>).affected

recomputeGraphMetrics(G) == [G EXCEPT !.scc = computeSCC(G)]

\* revList.includes(f) ? nothing : revList.push(f); a missing list is created
addReverse(rev, dep, f) ==
  IF MapHas(rev, dep)
  THEN (IF Includes(rev[dep], f) THEN rev ELSE MapPut(rev, dep, Append(rev[dep], f)))
  ELSE MapPut(rev, dep, <<f>>)

\* const revList = reverse.get(dep); if (revList) remove the first f from it
removeReverse(rev, dep, f) ==
  IF MapHas(rev, dep) THEN MapPut(rev, dep, RemoveFirst(rev[dep], f)) ELSE rev

NoChange(f) ==
  [updatedFile |-> f, addedEdges |-> <<>>, removedEdges |-> <<>>,
   edgesChanged |-> FALSE, affectedFiles |-> <<>>]

\* The part of updateGraphForFile for a file that is in the graph;
\* rawImports is what plugin.parseImports returns for it.
updateExisting(G, f, rawImports) ==
  With(MapGet(G.forward, f, <<>>), LAMBDA oldDeps :
  With(SelectSeq(rawImports, LAMBDA imp : Includes(G.files, imp)), LAMBDA newDeps :
  With(SelectSeq(newDeps, LAMBDA dep : ~Includes(oldDeps, dep)), LAMBDA added :
  With(SelectSeq(oldDeps, LAMBDA dep : ~Includes(newDeps, dep)), LAMBDA removed :
  With([i \in DOMAIN added |-> <<f, added[i]>>], LAMBDA addedEdges :
  With([i \in DOMAIN removed |-> <<f, removed[i]>>], LAMBDA removedEdges :
  With(Len(addedEdges) > 0 \/ Len(removedEdges) > 0, LAMBDA edgesChanged :
  With(MapPut(G.forward, f, newDeps), LAMBDA fwd :
  With(FoldSeq(LAMBDA r, dep : removeReverse(r, dep, f), G.reverse, removed), LAMBDA rev1 :
  With(FoldSeq(LAMBDA r, dep : addReverse(r, dep, f), rev1, added), LAMBDA rev2 :
  With([G EXCEPT !.forward = fwd, !.reverse = rev2], LAMBDA G1 :
  With(computeAffectedFiles(f, G1), LAMBDA affectedFiles :
    [graph |-> IF edgesChanged THEN recomputeGraphMetrics(G1) ELSE G1,
     result |-> [updatedFile |-> f, addedEdges |-> addedEdges,
                 removedEdges |-> removedEdges, edgesChanged |-> edgesChanged,
                 affectedFiles |-> affectedFiles]]))))))))))))

\* addNew that also appends f to the forward list of each file f imports
addNewLinkingBack(G, f, rawImports) ==
  With([G EXCEPT !.files = SetAdd(@, f),
                 !.forward = MapPut(@, f, <<>>),
                 !.reverse = IF MapHas(@, f) THEN @ ELSE MapPut(@, f, <<>>)], LAMBDA G0 :
  With(SelectSeq(rawImports, LAMBDA imp : Includes(G0.files, imp)), LAMBDA newDeps :
  With([i \in DOMAIN newDeps |-> <<f, newDeps[i]>>], LAMBDA addedEdges :
  With(FoldSeq(LAMBDA r, dep : addReverse(r, dep, f), G0.reverse, newDeps), LAMBDA rev :
  With([G0 EXCEPT !.forward =
                    MapPut(FoldSeq(LAMBDA fw, dep :
                                     MapPut(fw, dep, Append(MapGet(fw, dep, <<>>), f)),
                                   @, newDeps), f, newDeps),
                  !.reverse = rev], LAMBDA G1 :
  With(Len(addedEdges) > 0, LAMBDA edgesChanged :
  With(computeAffectedFiles(f, G1), LAMBDA affectedFiles :
    [graph |-> IF edgesChanged THEN recomputeGraphMetrics(G1) ELSE G1,
     result |-> [updatedFile |-> f, addedEdges |-> addedEdges,
                 removedEdges |-> <<>>, edgesChanged |-> edgesChanged,
                 affectedFiles |-> affectedFiles]])))))))

\* The part of addFileToGraph for a file that is not in the graph
addNew(G, f, rawImports) ==
  With([G EXCEPT !.files = SetAdd(@, f),
                 !.forward = MapPut(@, f, <<>>),
                 !.reverse = IF MapHas(@, f) THEN @ ELSE MapPut(@, f, <<>>)], LAMBDA G0 :
  With(SelectSeq(rawImports, LAMBDA imp : Includes(G0.files, imp)), LAMBDA newDeps :
  With([i \in DOMAIN newDeps |-> <<f, newDeps[i]>>], LAMBDA addedEdges :
  With(FoldSeq(LAMBDA r, dep : addReverse(r, dep, f), G0.reverse, newDeps), LAMBDA rev :
  With([G0 EXCEPT !.forward = MapPut(@, f, newDeps), !.reverse = rev], LAMBDA G1 :
  With(Len(addedEdges) > 0, LAMBDA edgesChanged :
  With(computeAffectedFiles(f, G1), LAMBDA affectedFiles :
    [graph |-> IF edgesChanged THEN recomputeGraphMetrics(G1) ELSE G1,
     result |-> [updatedFile |-> f, addedEdges |-> addedEdges,
                 removedEdges |-> <<>>, edgesChanged |-> edgesChanged,
                 affectedFiles |-> affectedFiles]])))))))

\* updateGraphForFile that treats every file as a new one
updateGraphForFileAsNew(G, f, rawImports) == addNew(G, f, rawImports)

\* updateGraphForFile and addFileToGraph hand over to each other on
\* graph.files.has(f), so both come to the same dispatch.
updateGraphForFile(G, f, rawImports) ==
  IF ~Includes(G.files, f) THEN addNew(G, f, rawImports)
  ELSE updateExisting(G, f, rawImports)

addFileToGraph(G, f, rawImports) ==
  IF Includes(G.files, f) THEN updateExisting(G, f, rawImports)
  ELSE addNew(G, f, rawImports)

removeFileFromGraph(G, f) ==
  IF ~Includes(G.files, f) THEN [graph |-> G, result |-> NoChange(f)]
  ELSE
    With(computeAffectedFiles(f, G), LAMBDA affectedFiles :
    With(MapGet(G.forward, f, <<>>), LAMBDA forwardDeps :
    \* 1. remove f from the reverse list of each forward target
    With(FoldSeq(LAMBDA r, dep : removeReverse(r, dep, f), G.reverse, forwardDeps), LAMBDA rev1 :
    \* 2. the reverse list of f is read after step 1 has spliced it
    With(MapGet(rev1, f, <<>>), LAMBDA reverseDeps :
    With(FoldSeq(LAMBDA fw, src :
                   IF MapHas(fw, src) THEN MapPut(fw, src, RemoveFirst(fw[src], f)) ELSE fw,
                 G.forward, reverseDeps), LAMBDA fwd1 :
    With([i \in DOMAIN forwardDeps |-> <<f, forwardDeps[i]>>]
           \o [i \in DOMAIN reverseDeps |-> <<reverseDeps[i], f>>], LAMBDA removedEdges :
    With([G EXCEPT !.forward = MapDel(fwd1, f), !.reverse = MapDel(rev1, f),
                   !.files = SetDelete(@, f)], LAMBDA G1 :
    With(Len(removedEdges) > 0, LAMBDA edgesChanged :
      [graph |-> IF edgesChanged THEN recomputeGraphMetrics(G1) ELSE G1,
       result |-> [updatedFile |-> f, addedEdges |-> <<>>,
                   removedEdges |-> removedEdges, edgesChanged |-> edgesChanged,
                   affectedFiles |-> affectedFiles]]))))))))

-----------------------------------------------------------------------------
(* Memo cache (createMemoCache) *)
\* M = [cache: Map key -> MemoEntry, accessOrder: array of keys,
\*      reverseIndex: Map file -> Set of keys, hits, misses, maxSize]

createMemoCache(maxSize) ==
  [cache |-> EmptyMap, accessOrder |-> <<>>, reverseIndex |-> EmptyMap,
   hits |-> 0, misses |-> 0, maxSize |-> maxSize]

\* touchKey that leaves a key already present where it is
touchKeyNoMove(M, key) ==
  IF Includes(M.accessOrder, key) THEN M
  ELSE [M EXCEPT !.accessOrder = Append(@, key)]

touchKey(M, key) ==
  [M EXCEPT !.accessOrder = Append(RemoveFirst(@, key), key)]

\* keys = reverseIndex.get(file); if (keys) { keys.delete(key); drop an empty set }
dropFromReverseIndex(R, file, key) ==
  IF ~MapHas(R, file) THEN R
  ELSE IF R[file] \ {key} = {} THEN MapDel(R, file)
  ELSE MapPut(R, file, R[file] \ {key})

\* removeEntry that leaves the reverse index as it is
removeEntryKeepIndex(M, key) ==
  IF ~MapHas(M.cache, key) THEN M
  ELSE [M EXCEPT !.cache = MapDel(@, key), !.accessOrder = RemoveFirst(@, key)]

removeEntry(M, key) ==
  IF ~MapHas(M.cache, key) THEN M
  ELSE
    With(M.cache[key], LAMBDA entry :
    With(FoldSeq(LAMBDA R, file : dropFromReverseIndex(R, file, key),
                 M.reverseIndex, entry.impactSet), LAMBDA R1 :
    With(dropFromReverseIndex(R1, key, key), LAMBDA R2 :
      [M EXCEPT !.reverseIndex = R2,
                !.cache = MapDel(@, key),
                !.accessOrder = RemoveFirst(@, key)])))

RECURSIVE evictLRU(_)
evictLRU(M) ==
  IF Cardinality(DOMAIN M.cache) > M.maxSize /\ Len(M.accessOrder) > 0
  THEN evictLRU(removeEntry([M EXCEPT !.accessOrder = Tail(@)], Head(M.accessOrder)))
  ELSE M

addToReverseIndex(R, file, cacheKey) ==
  MapPut(R, file, MapGet(R, file, {}) \cup {cacheKey})

\* get: [memo, entry]; entry is Undefined on a miss
get(M, filePath) ==
  IF MapHas(M.cache, filePath)
  THEN [memo |-> touchKey([M EXCEPT !.hits = @ + 1], filePath),
        entry |-> Some(M.cache[filePath])]
  ELSE [memo |-> [M EXCEPT !.misses = @ + 1], entry |-> Undefined]

set(M, filePath, entry) ==
  With(IF MapHas(M.cache, filePath) THEN removeEntry(M, filePath) ELSE M, LAMBDA M0 :
  With(touchKey([M0 EXCEPT !.cache = MapPut(@, filePath, entry)], filePath), LAMBDA M1 :
  With(FoldSeq(LAMBDA R, file : addToReverseIndex(R, file, filePath),
               M1.reverseIndex, entry.impactSet), LAMBDA R1 :
  With(addToReverseIndex(R1, filePath, filePath), LAMBDA R2 :
    evictLRU([M1 EXCEPT !.reverseIndex = R2])))))

RECURSIVE removeAll(_, _)
\* for (const key of keysToInvalidate) removeEntry(key); the removals of
\* distinct keys commute, so the iteration order of the Set is immaterial
removeAll(M, keys) ==
  IF keys = {} THEN M
  ELSE With(CHOOSE x \in keys : TRUE, LAMBDA k : removeAll(removeEntry(M, k), keys \ {k}))

\* invalidate that removes only the affected files' own entries
invalidateOwnKeys(M, affectedFiles) ==
  LET keysToInvalidate == Range(affectedFiles) \cap DOMAIN M.cache
  IN [memo |-> removeAll(M, keysToInvalidate),
      count |-> Cardinality(keysToInvalidate)]

\* invalidate: [memo, count]
invalidate(M, affectedFiles) ==
  With(UNION {MapGet(M.reverseIndex, affectedFiles[i], {}) : i \in DOMAIN affectedFiles},
       LAMBDA keysToInvalidate :
    [memo |-> removeAll(M, keysToInvalidate),
     count |-> Cardinality(keysToInvalidate)])

\* invalidateAll that also resets the counters
invalidateAllResetStats(M) ==
  [M EXCEPT !.cache = EmptyMap, !.accessOrder = <<>>, !.reverseIndex = EmptyMap,
            !.hits = 0, !.misses = 0]

invalidateAll(M) ==
  [M EXCEPT !.cache = EmptyMap, !.accessOrder = <<>>, !.reverseIndex = EmptyMap]

stats(M) == [size |-> Cardinality(DOMAIN M.cache), hits |-> M.hits, misses |-> M.misses]

\* resetMemoCache: the global cache always exists once a query has run
resetMemoCache(M) == invalidateAll(M)

-----------------------------------------------------------------------------
(* Impact analyser *)

\* path.relative(graph.sourceDir, f) with forward slashes
toRelative(f) == <<"rel", f>>

\* path.normalize(path.join(graph.sourceDir, rel))
toAbsolute(rel) == rel[2]

MapSeq(Op(_), s) == [i \in DOMAIN s |-> Op(s[i])]

\* classifyRisk with the thresholds as strict lower bounds
classifyRiskStrict(count) ==
  IF count > HighThreshold THEN "HIGH"
  ELSE IF count > MediumThreshold THEN "MEDIUM"
  ELSE IF count > LowThreshold THEN "LOW"
  ELSE "NONE"

classifyRisk(count) ==
  IF count >= HighThreshold THEN "HIGH"
  ELSE IF count >= MediumThreshold THEN "MEDIUM"
  ELSE IF count >= LowThreshold THEN "LOW"
  ELSE "NONE"

RECURSIVE bfsLoop(_, _, _, _, _)
\* The while loop of analyzeImpactBFS; visited is the insertion-ordered Set,
\* shifted the files queue.shift() has returned; [visited, shifted]
bfsLoop(G, normalized, visited, queue, shifted) ==
  IF queue = <<>> THEN [visited |-> visited, shifted |-> shifted]
  ELSE
    LET dependents == MapGet(G.reverse, Head(queue), <<>>)
        step(acc, dep) ==
          IF ~Includes(acc.visited, dep) /\ dep # normalized
          THEN [visited |-> Append(acc.visited, dep), queue |-> Append(acc.queue, dep)]
          ELSE acc
    IN With(FoldSeq(step, [visited |-> visited, queue |-> Tail(queue)], dependents),
            LAMBDA r : bfsLoop(G, normalized, r.visited, r.queue,
                               Append(shifted, Head(queue))))

analyzeImpactBFS(normalized, G) ==
  With(MapGet(G.reverse, normalized, <<>>), LAMBDA directDependents :
  With(bfsLoop(G, normalized, Dedup(directDependents), directDependents, <<>>).visited,
       LAMBDA visited :
  With(Len(visited), LAMBDA totalImpacted :
  With(SelectSeq(visited, LAMBDA f : ~Includes(directDependents, f)),
       LAMBDA transitiveDependents :
    [filePath |-> normalized,
     relativePath |-> toRelative(normalized),
     riskLevel |-> classifyRisk(totalImpacted),
     directDependents |-> MapSeq(toRelative, directDependents),
     transitiveDependents |-> MapSeq(toRelative, transitiveDependents),
     totalImpacted |-> totalImpacted,
     cascadeLevels |-> Undefined,
     circularCluster |-> Undefined,
     sccCount |-> Undefined,
     cyclicSCCs |-> Undefined,
     fromCache |-> FALSE]))))

RECURSIVE sccBfsLoopSameLevel(_, _, _, _)
\* The loop over the condensed reverse edges that hands its own level on to
\* the SCCs it discovers
sccBfsLoopSameLevel(condensed, visitedSCCs, queue, shifted) ==
  IF queue = <<>> THEN [visited |-> visitedSCCs, shifted |-> shifted]
  ELSE
    LET level == Head(queue)[2]
        step(acc, depSCC) ==
          IF \E i \in DOMAIN acc.visited : acc.visited[i][1] = depSCC THEN acc
          ELSE [visited |-> Append(acc.visited, <<depSCC, level>>),
                queue |-> Append(acc.queue, <<depSCC, level>>)]
    IN With(FoldSeq(step, [visited |-> visitedSCCs, queue |-> Tail(queue)],
                    condensed.reverse[Head(queue)[1]]),
            LAMBDA r : sccBfsLoopSameLevel(condensed, r.visited, r.queue,
                                           Append(shifted, Head(queue)[1])))

RECURSIVE sccBfsLoop(_, _, _, _)
\* The while loop over the condensed reverse edges; visitedSCCs is the
\* insertion-ordered Map SCC index -> level, as an array of <<index, level>>,
\* shifted the SCC indices queue.shift() has returned; [visited, shifted]
sccBfsLoop(condensed, visitedSCCs, queue, shifted) ==
  IF queue = <<>> THEN [visited |-> visitedSCCs, shifted |-> shifted]
  ELSE
    LET sccIdx == Head(queue)[1]
        level == Head(queue)[2]
        dependentSCCs == condensed.reverse[sccIdx]
        step(acc, depSCC) ==
          IF \E i \in DOMAIN acc.visited : acc.visited[i][1] = depSCC THEN acc
          ELSE [visited |-> Append(acc.visited, <<depSCC, level + 1>>),
                queue |-> Append(acc.queue, <<depSCC, level + 1>>)]
    IN With(FoldSeq(step, [visited |-> visitedSCCs, queue |-> Tail(queue)], dependentSCCs),
            LAMBDA r : sccBfsLoop(condensed, r.visited, r.queue,
                                  Append(shifted, Head(queue)[1])))

\* analyzeImpactWithSCC that leaves the SCC result aside
analyzeImpactIgnoringSCC(normalized, G) == analyzeImpactBFS(normalized, G)

analyzeImpactWithSCC(normalized, G) ==
  LET scc == G.scc
      condensed == scc.condensed
  IN
  IF ~MapHas(scc.nodeToComponent, normalized) THEN analyzeImpactBFS(normalized, G)
  ELSE
    With(scc.nodeToComponent[normalized], LAMBDA sccIndex :
    With(condensed.nodes[sccIndex], LAMBDA startNode :
    With(SelectSeq(startNode.files, LAMBDA f : f # normalized), LAMBDA others :
    With(IF startNode.isCyclic THEN Some(MapSeq(toRelative, others)) ELSE Undefined,
         LAMBDA circularCluster :
    With(sccBfsLoop(condensed, << <<sccIndex, 0>> >>, << <<sccIndex, 0>> >>, <<>>).visited,
         LAMBDA visitedSCCs :
    \* expand the visited SCCs to files: <<file, level>> in insertion order
    With(FoldSeq(LAMBDA acc, v :
                   FoldSeq(LAMBDA a, file :
                             IF file = normalized THEN a
                             ELSE [files |-> SetAdd(a.files, file),
                                   levels |-> MapPut(a.levels, file, v[2])],
                           acc, condensed.nodes[v[1]].files),
                 [files |-> <<>>, levels |-> EmptyMap], visitedSCCs), LAMBDA expanded :
    With(expanded.files, LAMBDA allImpactedFiles :
    With(MapGet(G.reverse, normalized, <<>>), LAMBDA rawDirectDependents :
    With(Range(rawDirectDependents)
           \cup (IF startNode.isCyclic THEN Range(others) ELSE {}), LAMBDA directSet :
    With(SelectSeq(allImpactedFiles, LAMBDA f : f \in directSet), LAMBDA directDependents :
    With(SelectSeq(allImpactedFiles, LAMBDA f : f \notin directSet),
         LAMBDA transitiveDependents :
    With(Len(allImpactedFiles), LAMBDA totalImpacted :
    With([r \in {toRelative(f) : f \in DOMAIN expanded.levels} |->
            expanded.levels[toAbsolute(r)]], LAMBDA relativeCascadeLevels :
      [filePath |-> normalized,
       relativePath |-> toRelative(normalized),
       riskLevel |-> classifyRisk(totalImpacted),
       directDependents |-> MapSeq(toRelative, directDependents),
       transitiveDependents |-> MapSeq(toRelative, transitiveDependents),
       totalImpacted |-> totalImpacted,
       cascadeLevels |-> Some(relativeCascadeLevels),
       circularCluster |-> circularCluster,
       sccCount |-> Some(Len(condensed.nodes)),
       cyclicSCCs |-> Some(Len(SelectSeq(condensed.nodes, LAMBDA n : n.isCyclic))),
       fromCache |-> FALSE])))))))))))))

\* The cache-miss computation that follows the imports of the file instead
\* of its importers
freshImpactOfImports(normalized, G) ==
  analyzeImpactBFS(normalized, [G EXCEPT !.reverse = G.forward])

\* The cache-miss computation of analyzeImpact: graph.scc is an optional
\* field, which buildGraph sets on every graph it returns.
freshImpact(normalized, G) ==
  IF "scc" \in DOMAIN G THEN analyzeImpactWithSCC(normalized, G)
  ELSE analyzeImpactBFS(normalized, G)

\* The cache-hit reconstruction of analyzeImpact
cachedImpact(normalized, G, cached) ==
  With(MapSeq(toRelative, MapGet(G.reverse, normalized, <<>>)), LAMBDA directDependents :
  With(SelectSeq(MapSeq(toRelative, cached.impactSet),
                 LAMBDA rel : ~Includes(directDependents, rel)), LAMBDA transitiveDependents :
    [filePath |-> normalized,
     relativePath |-> toRelative(normalized),
     riskLevel |-> cached.riskLevel,
     directDependents |-> directDependents,
     transitiveDependents |-> transitiveDependents,
     totalImpacted |-> cached.directCount + cached.transitiveCount,
     cascadeLevels |-> cached.cascadeLevels,
     circularCluster |-> Undefined,
     sccCount |-> Undefined,
     cyclicSCCs |-> Undefined,
     fromCache |-> TRUE]))

\* The MemoEntry analyzeImpact stores after a miss
entryOf(result) ==
  [impactSet |-> MapSeq(toAbsolute, result.directDependents \o result.transitiveDependents),
   directCount |-> Len(result.directDependents),
   transitiveCount |-> Len(result.transitiveDependents),
   riskLevel |-> result.riskLevel,
   cascadeLevels |-> result.cascadeLevels]

\* analyzeImpact: [memo, result]
analyzeImpact(filePath, G, M) ==
  With(get(M, filePath), LAMBDA looked :
    IF looked.entry # Undefined
    THEN [memo |-> looked.memo, result |-> cachedImpact(filePath, G, looked.entry[1])]
    ELSE With(freshImpact(filePath, G), LAMBDA result :
           [memo |-> set(looked.memo, filePath, entryOf(result)), result |-> result]))

\* entries.sort((a, b) => b.count - a.count): a stable sort, so an entry goes
\* behind those of at least its count
insertByCount(sorted, e) ==
  With(Len(SelectSeq(sorted, LAMBDA x : x.count >= e.count)), LAMBDA k :
    SubSeq(sorted, 1, k) \o <<e>> \o SubSeq(sorted, k + 1, Len(sorted)))

getHubFiles(G, topN) ==
  With([i \in DOMAIN G.files |->
          [file |-> G.files[i], count |-> Len(MapGet(G.reverse, G.files[i], <<>>))]],
       LAMBDA entries :
  With(FoldSeq(insertByCount, <<>>, entries), LAMBDA sorted :
  With(SubSeq(sorted, 1, IF topN < Len(sorted) THEN topN ELSE Len(sorted)), LAMBDA top :
    [i \in DOMAIN top |->
       [relativePath |-> toRelative(top[i].file),
        dependentCount |-> top[i].count,
        riskLevel |-> classifyRisk(top[i].count)]])))

-----------------------------------------------------------------------------
(* File watcher: FileCache.handleFileEvent and its subscribers *)

\* The "change" listener wired by wireFileCacheEvents, run synchronously by
\* emit("change"): it reads the nodes connected to the file from the graph
\* and, with real-time analysis enabled, runs analyzeChangeRealtime, whose
\* synchronous part calls analyzeImpact for a file that is in the graph.
\* W = [graph, memo, log]; the listener's view of the graph is logged.
onChange(W, f, realtimeAI) ==
  With(MapGet(W.graph.reverse, f, <<>>), LAMBDA revDeps :
  With(MapGet(W.graph.forward, f, <<>>), LAMBDA fwdDeps :
  With(MapSeq(toRelative, Dedup(revDeps \o fwdDeps)), LAMBDA connectedNodes :
    [graph |-> W.graph,
     memo |-> IF realtimeAI /\ Includes(W.graph.files, f)
              THEN analyzeImpact(f, W.graph, W.memo).memo ELSE W.memo,
     log |-> Append(W.log, [step |-> "change", forward |-> W.graph.forward,
                            reverse |-> W.graph.reverse,
                            connectedNodes |-> connectedNodes])])))

\* The "graph-updated" listener: broadcasts the edge counts of the result
onGraphUpdated(W, result) ==
  [W EXCEPT !.log = Append(@, [step |-> "graph-updated", forward |-> W.graph.forward,
                               reverse |-> W.graph.reverse, connectedNodes |-> <<>>])]

\* The incremental update of handleFileEvent (this.graph is set):
\* update the graph by event type, invalidate the memo cache when edges
\* changed, emit "graph-updated".
applyChange(W, d, f, type) ==
  With(parseImports(d, f), LAMBDA rawImports :
  With(IF type = "modified" THEN updateGraphForFile(W.graph, f, rawImports)
       ELSE IF type = "added" THEN addFileToGraph(W.graph, f, rawImports)
       ELSE removeFileFromGraph(W.graph, f), LAMBDA up :
  With(up.result, LAMBDA result :
  With([graph |-> up.graph, memo |-> W.memo,
        log |-> Append(W.log, [step |-> "apply", forward |-> up.graph.forward,
                               reverse |-> up.graph.reverse, connectedNodes |-> <<>>])],
       LAMBDA W1 :
  With(IF result.edgesChanged /\ Len(result.affectedFiles) > 0
       THEN [W1 EXCEPT !.memo = invalidate(W1.memo, result.affectedFiles).memo,
                       !.log = Append(@, [step |-> "invalidate",
                                          forward |-> W1.graph.forward,
                                          reverse |-> W1.graph.reverse,
                                          connectedNodes |-> <<>>])]
       ELSE W1, LAMBDA W2 :
    [world |-> onGraphUpdated(W2, result), result |-> result])))))

\* cache.get(absPath) || null: an empty string counts as no content
oldContentOf(fc, f) == IF MapHas(fc, f) /\ fc[f] # <<>> THEN Some(fc[f]) ELSE Undefined

\* The event type handleFileEvent decides on; "none" when it returns early
classify(d, fc, f) ==
  IF Exists(d, f) THEN
    (IF oldContentOf(fc, f) = Undefined THEN "added"
     ELSE IF oldContentOf(fc, f) = Some(d[f]) THEN "none"
     ELSE "modified")
  ELSE "deleted"

\* content.split("\n"): a content is kept as the list of its lines, and the
\* empty string splits into the one line ""
split(content) == IF content = <<>> THEN <<"">> ELSE content

\* content ? content.split("\n") : []: null and the empty string are falsy
linesOf(content) ==
  IF content = Undefined \/ content = Some(<<>>) THEN <<>> ELSE split(content[1])

\* One step of the loop of computeDiff, for the 1-based line i; a field an
\* entry does not have is Undefined
diffEntry(oldLines, newLines, i) ==
  IF i > Len(oldLines) /\ i <= Len(newLines)
  THEN [line |-> i, type |-> "added", old |-> Undefined, new |-> Some(newLines[i])]
  ELSE IF i <= Len(oldLines) /\ i > Len(newLines)
  THEN [line |-> i, type |-> "removed", old |-> Some(oldLines[i]), new |-> Undefined]
  ELSE IF oldLines[i] # newLines[i]
  THEN [line |-> i, type |-> "changed", old |-> Some(oldLines[i]),
        new |-> Some(newLines[i])]
  ELSE [line |-> i, type |-> "same", old |-> Undefined, new |-> Undefined]

\* computeDiff: the entries pushed for the lines that differ
computeDiff(oldContent, newContent) ==
  With(linesOf(oldContent), LAMBDA oldLines :
  With(linesOf(newContent), LAMBDA newLines :
  With(IF Len(oldLines) > Len(newLines) THEN Len(oldLines) ELSE Len(newLines),
       LAMBDA maxLen :
    SelectSeq([i \in 1..maxLen |-> diffEntry(oldLines, newLines, i)],
              LAMBDA e : e.type # "same"))))

\* newContent of handleFileEvent: the file as read, null when it is gone
newContentOf(d, f) == IF Exists(d, f) THEN Some(d[f]) ELSE Undefined

\* handleFileEvent of a FileCache whose this.graph is G while getGraph
\* returns Q, the graph the "change" listener reads:
\* [fcache, graph, memo, type, oldContent, newContent, diff, log, result], graph being G
\* after the update
handleFileEventOn(d, fc, G, Q, M, f, realtimeAI) ==
  With(classify(d, fc, f), LAMBDA type :
    IF type = "none"
    THEN [fcache |-> fc, graph |-> G, memo |-> M, type |-> type,
          oldContent |-> oldContentOf(fc, f), newContent |-> newContentOf(d, f),
          diff |-> <<>>, log |-> <<>>, result |-> NoChange(f)]
    ELSE
      With(IF type = "deleted" THEN MapDel(fc, f) ELSE MapPut(fc, f, d[f]), LAMBDA fc1 :
      With(onChange([graph |-> Q, memo |-> M, log |-> <<>>], f, realtimeAI), LAMBDA W1 :
      With(applyChange([graph |-> G, memo |-> W1.memo, log |-> W1.log], d, f, type),
           LAMBDA ap :
        [fcache |-> fc1, graph |-> ap.world.graph, memo |-> ap.world.memo,
         type |-> type, oldContent |-> oldContentOf(fc, f),
         newContent |-> newContentOf(d, f),
         diff |-> computeDiff(oldContentOf(fc, f), newContentOf(d, f)),
         log |-> ap.world.log, result |-> ap.result]))))

\* handleFileEvent while this.graph is the object getGraph returns
handleFileEvent(d, fc, G, M, f, realtimeAI) ==
  handleFileEventOn(d, fc, G, G, M, f, realtimeAI)

-----------------------------------------------------------------------------
(* File watcher: fs.watch handles and debounce timers *)

\* The clock advances in steps of Quantum milliseconds
Quantum == 500

\* W = [sourceDirs: array of directories, each the array of the paths under it,
\*      watcher: this.watcher, the index of the stored handle or Undefined,
\*      handles: the directories whose fs.watch handle is open,
\*      debounceTimers: Map path -> the timeout stored for it (its due time),
\*      timeouts: the timeouts armed in the runtime, as <<path, due time>>,
\*      now: the clock,
\*      stopped, events: history (stop() was called; per path, the times
\*      the watch callback ran since the handler last ran or stop() was
\*      called: the burst in progress)]
newFileCache(dirs) ==
  [sourceDirs |-> dirs, watcher |-> Undefined, handles |-> {},
   debounceTimers |-> EmptyMap, timeouts |-> {}, now |-> 0, stopped |-> FALSE,
   events |-> [f \in AllFiles |-> <<>>]]

\* fs.watch is opened on every source directory; the first handle is stored
startWatching(W) ==
  IF W.watcher # Undefined THEN W
  ELSE [W EXCEPT !.handles = @ \cup DOMAIN W.sourceDirs,
                 !.watcher = IF W.sourceDirs = <<>> THEN Undefined ELSE Some(1)]

\* clearTimeout on the timeout stored for absPath, if there is one
clearExisting(W, absPath) ==
  IF MapHas(W.debounceTimers, absPath)
  THEN W.timeouts \ {<<absPath, W.debounceTimers[absPath]>>}
  ELSE W.timeouts

\* The fs.watch callback that arms a timeout and leaves the earlier one armed
watchCallbackNoClear(W, absPath) ==
  [W EXCEPT !.timeouts = @ \cup {<<absPath, W.now + DEBOUNCE_MS>>},
            !.debounceTimers = MapPut(@, absPath, W.now + DEBOUNCE_MS)]

\* The fs.watch callback for a watched file name
watchCallback(W, absPath) ==
  [W EXCEPT !.timeouts = clearExisting(W, absPath) \cup {<<absPath, W.now + DEBOUNCE_MS>>},
            !.debounceTimers = MapPut(@, absPath, W.now + DEBOUNCE_MS)]

stop(W) ==
  [W EXCEPT !.handles = IF W.watcher # Undefined THEN @ \ {W.watcher[1]} ELSE @,
            !.watcher = Undefined,
            !.timeouts = @ \ {<<f, W.debounceTimers[f]>> : f \in DOMAIN W.debounceTimers},
            !.debounceTimers = EmptyMap]

-----------------------------------------------------------------------------
(* Change-coupling miner: mineGitHistory and its module-level cache *)

\* The paths git log prints, in the order of the < operator on strings; a
\* path is a forward-slash path relative to the repository root, so that
\* normalizePath leaves it as it is.
GitFiles == <<"A", "B", "C", "pkg.lock">>

\* isSourceFile: no skip pattern matches the lower-cased path; of GitFiles
\* only pkg.lock matches one (/\.lock$/)
isSourceFile(filePath) == filePath # "pkg.lock"

\* pairKey: the two paths joined in ascending order
pairKey(a, b) ==
  IF IndexOf(GitFiles, a) < IndexOf(GitFiles, b) THEN <<a, b>> ELSE <<b, a>>

\* The state of a project root as the git commands see it: not a work tree,
\* a work tree whose git log fails, or a work tree with its commits, newest
\* first, each commit the list of paths it touched
NotARepo == <<"norepo">>
LogFails == <<"fails">>
Repo(history) == <<"log", history>>

\* isGitRepo: git rev-parse succeeds
isGitRepo(V, projectRoot) ==
  MapHas(V.repos, projectRoot) /\ V.repos[projectRoot] # NotARepo

\* git log --name-only --max-count=maxCommits, read by parseGitLog: a commit
\* without file lines is dropped
parseGitLog(history, maxCommits) ==
  SelectSeq(SubSeq(history, 1, IF maxCommits < Len(history) THEN maxCommits
                                ELSE Len(history)),
            LAMBDA files : Len(files) > 0)

\* options?.field ?? default; an option that is not given is Undefined
OrDefault(value, dflt) == IF value = Undefined THEN dflt ELSE value[1]

\* The index pairs of for (i...) for (j = i + 1...) in loop order
IndexPairs(n) ==
  LET S == {p \in (1..n) \X (1..n) : p[1] < p[2]}
      before(q, p) == q[1] < p[1] \/ (q[1] = p[1] /\ q[2] < p[2])
  IN [k \in 1..Cardinality(S) |->
        CHOOSE p \in S : Cardinality({q \in S : before(q, p)}) = k - 1]

\* map.set(key, (map.get(key) || 0) + 1) on an insertion-ordered Map, kept
\* as [keys: the keys in insertion order, count: key -> number]
Increment(m, key) ==
  [keys |-> SetAdd(m.keys, key), count |-> MapPut(m.count, key, MapGet(m.count, key, 0) + 1)]

\* countCommit that counts the files of every commit it skips
countCommitCountingSkipped(acc, commitFiles, maxFilesPerCommit) ==
  With(SelectSeq(commitFiles, isSourceFile), LAMBDA filtered :
    IF Len(filtered) > maxFilesPerCommit \/ Len(filtered) < 2
    THEN [acc EXCEPT !.fileChangeCount = FoldSeq(Increment, @, filtered),
                     !.totalCommitsAnalyzed = @ + 1]
    ELSE [fileChangeCount |-> FoldSeq(Increment, acc.fileChangeCount, filtered),
          pairCoChangeCount |->
            FoldSeq(LAMBDA m, p : Increment(m, pairKey(filtered[p[1]], filtered[p[2]])),
                    acc.pairCoChangeCount, IndexPairs(Len(filtered))),
          totalCommitsAnalyzed |-> acc.totalCommitsAnalyzed + 1])

\* One iteration of the loop over the commits
countCommit(acc, commitFiles, maxFilesPerCommit) ==
  With(SelectSeq(commitFiles, isSourceFile), LAMBDA filtered :
    IF Len(filtered) > maxFilesPerCommit \/ Len(filtered) < 2
    THEN [acc EXCEPT !.fileChangeCount =
                       IF Len(filtered) = 1 THEN Increment(@, filtered[1]) ELSE @,
                     !.totalCommitsAnalyzed = @ + 1]
    ELSE [fileChangeCount |-> FoldSeq(Increment, acc.fileChangeCount, filtered),
          pairCoChangeCount |->
            FoldSeq(LAMBDA m, p : Increment(m, pairKey(filtered[p[1]], filtered[p[2]])),
                    acc.pairCoChangeCount, IndexPairs(Len(filtered))),
          totalCommitsAnalyzed |-> acc.totalCommitsAnalyzed + 1])

\* A confidence is the exact quotient num / den, kept as <<num, den>>
RatLess(x, y) == x[1] * y[2] < y[1] * x[2]

\* couplingOf with the smaller of the two change counts as the denominator
couplingOfMin(key, coCount, fileChangeCount) ==
  With(MapGet(fileChangeCount.count, key[1], 0), LAMBDA file1Changes :
  With(MapGet(fileChangeCount.count, key[2], 0), LAMBDA file2Changes :
  With(IF file1Changes < file2Changes THEN file1Changes ELSE file2Changes,
       LAMBDA minChanges :
    [file1 |-> key[1], file2 |-> key[2], coChangeCount |-> coCount,
     file1Changes |-> file1Changes, file2Changes |-> file2Changes,
     confidence |-> IF minChanges > 0 THEN <<coCount, minChanges>> ELSE <<0, 1>>,
     support |-> coCount])))

\* The coupling of a pair key: confidence = coCount / max(changes), 0 when
\* neither file has a change count
couplingOf(key, coCount, fileChangeCount) ==
  With(MapGet(fileChangeCount.count, key[1], 0), LAMBDA file1Changes :
  With(MapGet(fileChangeCount.count, key[2], 0), LAMBDA file2Changes :
  With(IF file1Changes > file2Changes THEN file1Changes ELSE file2Changes,
       LAMBDA maxChanges :
    [file1 |-> key[1], file2 |-> key[2], coChangeCount |-> coCount,
     file1Changes |-> file1Changes, file2Changes |-> file2Changes,
     confidence |-> IF maxChanges > 0 THEN <<coCount, maxChanges>> ELSE <<0, 1>>,
     support |-> coCount])))

\* couplings.sort((a, b) => b.confidence - a.confidence): a stable sort, so
\* a coupling goes behind those of at least its confidence
insertByConfidence(sorted, c) ==
  With(Len(SelectSeq(sorted, LAMBDA s : ~RatLess(s.confidence, c.confidence))), LAMBDA k :
    SubSeq(sorted, 1, k) \o <<c>> \o SubSeq(sorted, k + 1, Len(sorted)))

\* fileCouplingsOf that pushes a coupling on the list of its file1 only
fileCouplingsOfFile1(couplings) ==
  [f \in {c.file1 : c \in Range(couplings)} |->
     SelectSeq(couplings, LAMBDA c : c.file1 = f)]

\* The per-file lookup map: each coupling is pushed on the lists of its two
\* files in the sorted order, which the final per-list sort keeps
fileCouplingsOf(couplings) ==
  [f \in UNION {{c.file1, c.file2} : c \in Range(couplings)} |->
     SelectSeq(couplings, LAMBDA c : c.file1 = f \/ c.file2 = f)]

\* The result mineGitHistory computes from the commits of git log
mine(commits, now, minSupport, minConfidence, maxFilesPerCommit) ==
  With(FoldSeq(LAMBDA acc, c : countCommit(acc, c, maxFilesPerCommit),
               [fileChangeCount |-> [keys |-> <<>>, count |-> EmptyMap],
                pairCoChangeCount |-> [keys |-> <<>>, count |-> EmptyMap],
                totalCommitsAnalyzed |-> 0], commits), LAMBDA counted :
  With(FoldSeq(LAMBDA acc, key :
                 With(couplingOf(key, counted.pairCoChangeCount.count[key],
                                 counted.fileChangeCount), LAMBDA c :
                   IF c.coChangeCount < minSupport THEN acc
                   ELSE IF RatLess(c.confidence, minConfidence) THEN acc
                   ELSE Append(acc, c)),
               <<>>, counted.pairCoChangeCount.keys), LAMBDA pushed :
  With(FoldSeq(insertByConfidence, <<>>, pushed), LAMBDA couplings :
    [couplings |-> couplings,
     fileCouplings |-> fileCouplingsOf(couplings),
     totalCommitsAnalyzed |-> counted.totalCommitsAnalyzed,
     analyzedAt |-> now])))

DEFAULT_MAX_COMMITS == 500
DEFAULT_MIN_SUPPORT == 3
DEFAULT_MIN_CONFIDENCE == <<3, 10>>
DEFAULT_MAX_FILES_PER_COMMIT == 20
CACHE_TTL_MS == 5 * 60 * 1000

\* The module variables before the first call
NoCoupling == [cachedResult |-> Undefined, cachedProjectRoot |-> Undefined]

emptyResult(now) ==
  [couplings |-> <<>>, fileCouplings |-> EmptyMap, totalCommitsAnalyzed |-> 0,
   analyzedAt |-> now]

\* mineGitHistory: [coupling, result, mined]; C is the module's cache, V the
\* environment, mined tells whether the git commands were run
mineGitHistory(C, V, projectRoot, options) ==
  IF /\ C.cachedResult # Undefined
     /\ C.cachedProjectRoot = Some(projectRoot)
     /\ V.now - C.cachedResult[1].analyzedAt < CACHE_TTL_MS
  THEN [coupling |-> C, result |-> C.cachedResult[1], mined |-> FALSE]
  ELSE
    With(IF ~isGitRepo(V, projectRoot) \/ V.repos[projectRoot] = LogFails
         THEN emptyResult(V.now)
         ELSE mine(parseGitLog(V.repos[projectRoot][2],
                               OrDefault(options.maxCommits, DEFAULT_MAX_COMMITS)),
                   V.now,
                   OrDefault(options.minSupport, DEFAULT_MIN_SUPPORT),
                   OrDefault(options.minConfidence, DEFAULT_MIN_CONFIDENCE),
                   OrDefault(options.maxFilesPerCommit, DEFAULT_MAX_FILES_PER_COMMIT)),
         LAMBDA result :
      [coupling |-> [cachedResult |-> Some(result), cachedProjectRoot |-> Some(projectRoot)],
       result |-> result, mined |-> TRUE])

invalidateCouplingCache(C) == NoCoupling

\* The environment of a session that mines no history
NoVcs == [repos |-> EmptyMap, now |-> 0]

-----------------------------------------------------------------------------
(* The project session: filesystem, watcher, queries *)

Disks(n) == UNION {[S -> {c \in Contents : Len(c) <= n + 1}] : S \in SUBSET AllFiles}

NoOp == [op |-> "none"]

\* Start-up on a project whose files are one of the given filesystems:
\* getGraph builds the graph, FileCache.initialize loads every discovered
\* file, the global memo cache is empty.
startup(disks) ==
  /\ disk \in disks
  /\ fcache = disk
  /\ pending = {}
  /\ graph = buildGraph(disk, 0)
  /\ memo = createMemoCache(DefaultMaxSize)
  /\ last = NoOp
  /\ nEvents = 0
  /\ watch = startWatching(newFileCache(SourceDirs))
  /\ fcGraph = Undefined
  /\ coupling = NoCoupling
  /\ vcs = NoVcs
  /\ warningStore = <<>>

\* The projects a session starts on: up to one import per file, no empty file
Projects == {d \in Disks(1) : \A f \in DOMAIN d : d[f] # <<>>}

Init == startup(Projects)

\* A file is written (created or changed); fs.watch arms its debounce timer
DiskWrite(f, c, limit) ==
  /\ nEvents < limit
  /\ Exists(disk, f) => disk[f] # c
  /\ disk' = MapPut(disk, f, c)
  /\ pending' = pending \cup {f}
  /\ nEvents' = nEvents + 1
  /\ last' = [op |-> "disk"]
  /\ UNCHANGED <<fcache, graph, memo, watch, fcGraph, coupling, vcs, warningStore>>

\* A file is deleted
DiskDelete(f, limit) ==
  /\ nEvents < limit
  /\ Exists(disk, f)
  /\ disk' = MapDel(disk, f)
  /\ pending' = pending \cup {f}
  /\ nEvents' = nEvents + 1
  /\ last' = [op |-> "disk"]
  /\ UNCHANGED <<fcache, graph, memo, watch, fcGraph, coupling, vcs, warningStore>>

\* The graph object FileCache.graph refers to
watcherGraph == IF fcGraph = Undefined THEN graph ELSE fcGraph[1]

\* The debounce timer of f fires: handleFileEvent(f), which updates the
\* graph object the FileCache holds
Fire(f, realtimeAI) ==
  /\ f \in pending
  /\ realtimeAI => memo.hits + memo.misses < MaxQueries
  /\ With(handleFileEventOn(disk, fcache, watcherGraph, graph, memo, f, realtimeAI),
          LAMBDA h :
       /\ fcache' = h.fcache
       /\ graph' = IF fcGraph = Undefined THEN h.graph ELSE graph
       /\ fcGraph' = IF fcGraph = Undefined THEN fcGraph ELSE Some(h.graph)
       /\ memo' = h.memo
       /\ last' = [op |-> "event", file |-> f, type |-> h.type, log |-> h.log,
                   result |-> h.result, oldContent |-> h.oldContent,
                   newContent |-> h.newContent, diff |-> h.diff])
  /\ pending' = pending \ {f}
  /\ UNCHANGED <<disk, nEvents, watch, coupling, vcs, warningStore>>

\* An impact query for a file of the graph (callers check graph.files.has)
Query(f) ==
  /\ Includes(graph.files, f)
  /\ memo.hits + memo.misses < MaxQueries
  /\ With(analyzeImpact(f, graph, memo), LAMBDA r :
       /\ memo' = r.memo
       /\ last' = [op |-> "analyze", file |-> f, result |-> r.result])
  /\ UNCHANGED <<disk, fcache, pending, graph, nEvents, watch, fcGraph, coupling, vcs, warningStore>>

Next ==
  \/ \E f \in AllFiles, c \in Contents : DiskWrite(f, c, MaxEvents)
  \/ \E f \in AllFiles : DiskDelete(f, MaxEvents)
  \/ \E f \in AllFiles, realtimeAI \in BOOLEAN : Fire(f, realtimeAI)
  \/ \E f \in AllFiles : Query(f)

\* The whole session: edits, watcher events and impact queries
Spec == Init /\ [][Next]_vars

\* The watcher maintaining the graph of a project that starts without
\* imports, no impact query being made
InitGraph == startup(Disks(0))

NextGraph ==
  \/ \E f \in AllFiles, c \in Contents : DiskWrite(f, c, MaxGraphEvents)
  \/ \E f \in AllFiles : DiskDelete(f, MaxGraphEvents)
  \/ \E f \in AllFiles : Fire(f, FALSE)

SpecGraph == InitGraph /\ [][NextGraph]_vars

-----------------------------------------------------------------------------
(* A memo cache driven through its interface *)

\* The entries handed to set(): analyzeImpact's entry for a result whose
\* dependents are the given list
entryFor(impactSet) ==
  [impactSet |-> impactSet, directCount |-> Len(impactSet), transitiveCount |-> 0,
   riskLevel |-> classifyRisk(Len(impactSet)), cascadeLevels |-> Undefined]

MemoEntries == {entryFor(s) : s \in SeqsUpTo(AllFiles, MaxImpactLen)}

\* createMemoCache(maxSize) on its own; no project is open
InitMemo ==
  /\ memo \in {createMemoCache(n) : n \in 0..MaxCap}
  /\ disk = EmptyMap
  /\ fcache = EmptyMap
  /\ pending = {}
  /\ graph = buildGraph(EmptyMap, 0)
  /\ last = NoOp
  /\ nEvents = 0
  /\ watch = newFileCache(<<>>)
  /\ fcGraph = Undefined
  /\ coupling = NoCoupling
  /\ vcs = NoVcs
  /\ warningStore = <<>>

MemoGet(k) ==
  /\ memo.hits + memo.misses < MaxQueries
  /\ With(get(memo, k), LAMBDA r :
       /\ memo' = r.memo
       /\ last' = [op |-> "get", key |-> k, entry |-> r.entry])
  /\ UNCHANGED <<disk, fcache, pending, graph, nEvents, watch, fcGraph, coupling, vcs, warningStore>>

MemoSet(k, e) ==
  /\ With(set(memo, k, e), LAMBDA r :
       /\ memo' = r
       /\ last' = [op |-> "set", key |-> k, entry |-> e,
                   evicted |-> (DOMAIN memo.cache \cup {k}) \ DOMAIN r.cache])
  /\ UNCHANGED <<disk, fcache, pending, graph, nEvents, watch, fcGraph, coupling, vcs, warningStore>>

MemoInvalidate(affectedFiles) ==
  /\ With(invalidate(memo, affectedFiles), LAMBDA r :
       /\ memo' = r.memo
       /\ last' = [op |-> "invalidate", files |-> affectedFiles, count |-> r.count,
                   removed |-> DOMAIN memo.cache \ DOMAIN r.memo.cache])
  /\ UNCHANGED <<disk, fcache, pending, graph, nEvents, watch, fcGraph, coupling, vcs, warningStore>>

MemoInvalidateAll ==
  /\ memo' = invalidateAll(memo)
  /\ last' = [op |-> "invalidateAll", removed |-> DOMAIN memo.cache]
  /\ UNCHANGED <<disk, fcache, pending, graph, nEvents, watch, fcGraph, coupling, vcs, warningStore>>

NextMemo ==
  \/ \E k \in AllFiles : MemoGet(k)
  \/ \E k \in AllFiles, e \in MemoEntries : MemoSet(k, e)
  \/ \E affectedFiles \in SeqsUpTo(AllFiles, MaxAffected) : MemoInvalidate(affectedFiles)
  \/ MemoInvalidateAll

SpecMemo == InitMemo /\ [][NextMemo]_vars

-----------------------------------------------------------------------------
(* The watcher with its clock: notifications, timeouts, stop *)

\* The source directories of the project: one directory, or two (a C++
\* project with src and include).  The watched projects have no imports, so
\* buildGraph registers the same files in the same order under both.
WatchLayouts == {SourceDirs, << <<"a", "b">>, <<"c">> >>}

\* What a notification stands for: nothing changed, the file was deleted, or
\* it was written with the given content
Changes == {<<"none", <<>>>>, <<"delete", <<>>>>, <<"write", <<Code, "a">>>>}

InitWatch ==
  /\ disk = [f \in AllFiles |-> <<Code>>]
  /\ fcache = disk
  /\ pending = {}
  /\ graph = buildGraph(disk, 0)
  /\ memo = createMemoCache(DefaultMaxSize)
  /\ last = NoOp
  /\ nEvents = 0
  /\ watch \in {startWatching(newFileCache(dirs)) : dirs \in WatchLayouts}
  /\ fcGraph = Undefined
  /\ coupling = NoCoupling
  /\ vcs = NoVcs
  /\ warningStore = <<>>

\* No armed timeout is due: the event loop runs due timers before it polls
\* for filesystem notifications
NoTimeoutDue == \A t \in watch.timeouts : t[2] > watch.now

\* The filesystem changes at path f under directory dir; the directory's
\* handle, if it is open, runs the watch callback
FsEvent(dir, f, ch) ==
  /\ nEvents < MaxWatchEvents
  /\ Includes(watch.sourceDirs[dir], f)
  /\ NoTimeoutDue
  /\ ch[1] = "delete" => Exists(disk, f)
  /\ disk' = IF ch[1] = "none" THEN disk
             ELSE IF ch[1] = "delete" THEN MapDel(disk, f)
             ELSE MapPut(disk, f, ch[2])
  /\ watch' = IF dir \in watch.handles
              THEN [watchCallback(watch, f) EXCEPT !.events[f] = Append(@, watch.now)]
              ELSE watch
  /\ pending' = DOMAIN watch'.debounceTimers
  /\ nEvents' = nEvents + 1
  /\ last' = [op |-> "fs", file |-> f]
  /\ UNCHANGED <<fcache, graph, memo, fcGraph, coupling, vcs, warningStore>>

\* A due timeout runs: debounceTimers.delete(absPath); handleFileEvent
TimerFire(f) ==
  /\ \E t \in watch.timeouts :
       /\ t[1] = f
       /\ t[2] <= watch.now
       /\ watch' = [watch EXCEPT !.timeouts = @ \ {t},
                                 !.debounceTimers = MapDel(@, f),
                                 !.events[f] = <<>>]
  /\ With(handleFileEvent(disk, fcache, graph, memo, f, FALSE), LAMBDA h :
       /\ fcache' = h.fcache
       /\ graph' = h.graph
       /\ memo' = h.memo
       /\ last' = [op |-> "event", file |-> f, type |-> h.type, log |-> h.log,
                   result |-> h.result, oldContent |-> h.oldContent,
                   newContent |-> h.newContent, diff |-> h.diff,
                   burst |-> watch.events[f], at |-> watch.now])
  /\ pending' = DOMAIN watch'.debounceTimers
  /\ UNCHANGED <<disk, nEvents, fcGraph, coupling, vcs, warningStore>>

\* Time passes
Tick ==
  /\ NoTimeoutDue
  /\ watch.now < MaxTicks * Quantum
  /\ watch' = [watch EXCEPT !.now = @ + Quantum]
  /\ last' = [op |-> "tick"]
  /\ UNCHANGED <<disk, fcache, pending, graph, memo, nEvents, fcGraph, coupling, vcs, warningStore>>

\* FileCache.stop(): teardown, or the first step of a project switch
Stop ==
  /\ ~watch.stopped
  /\ watch' = [stop(watch) EXCEPT !.stopped = TRUE, !.events = [f \in AllFiles |-> <<>>]]
  /\ pending' = {}
  /\ last' = [op |-> "stop"]
  /\ UNCHANGED <<disk, fcache, graph, memo, nEvents, fcGraph, coupling, vcs, warningStore>>

NextWatch ==
  \/ \E dir \in DOMAIN watch.sourceDirs, f \in AllFiles, ch \in Changes : FsEvent(dir, f, ch)
  \/ \E f \in AllFiles : TimerFire(f)
  \/ Tick
  \/ Stop

SpecWatch == InitWatch /\ [][NextWatch]_vars

-----------------------------------------------------------------------------
(* The incremental updater driven directly, with replayed events *)

EventKinds == {"modified", "added", "deleted"}

\* The updater is applied for an event of the given kind on f, the file being
\* parsed as it is on the filesystem now; once an event has been applied,
\* the same event is applied again.  replay: the same event was applied in
\* the step before, the filesystem not having changed since.
Apply(kind, f) ==
  /\ last.op = "apply" => (kind = last.kind /\ f = last.file /\ last.n < MaxApplies)
  /\ With(IF kind = "modified" THEN updateGraphForFile(graph, f, parseImports(disk, f))
          ELSE IF kind = "added" THEN addFileToGraph(graph, f, parseImports(disk, f))
          ELSE removeFileFromGraph(graph, f), LAMBDA up :
       /\ graph' = up.graph
       /\ last' = [op |-> "apply", kind |-> kind, file |-> f, result |-> up.result,
                   n |-> IF last.op = "apply" THEN last.n + 1 ELSE 1,
                   replay |-> last.op = "apply",
                   changedBefore |-> (last.op = "apply" /\ last.result.edgesChanged)])
  /\ UNCHANGED <<disk, fcache, pending, memo, nEvents, watch, fcGraph, coupling, vcs, warningStore>>

\* The filesystem changes before the events are applied
NextReplay ==
  \/ \E f \in AllFiles, c \in Contents : last.op # "apply" /\ DiskWrite(f, c, MaxReplayEvents)
  \/ \E f \in AllFiles : last.op # "apply" /\ DiskDelete(f, MaxReplayEvents)
  \/ \E kind \in EventKinds, f \in AllFiles : Apply(kind, f)

SpecReplay == Init /\ [][NextReplay]_vars

-----------------------------------------------------------------------------
(* The SCC engine and the impact analyser applied to built graphs *)

\* buildGraph has registered the files and parsed the imports of a project;
\* the SCC result is not attached yet
InitAnalysis ==
  /\ disk \in Disks(MaxImports)
  /\ fcache = disk
  /\ pending = {}
  /\ graph = buildEdges(disk, 0)
  /\ memo = createMemoCache(DefaultMaxSize)
  /\ last = NoOp
  /\ nEvents = 0
  /\ watch = newFileCache(SourceDirs)
  /\ fcGraph = Undefined
  /\ coupling = NoCoupling
  /\ vcs = NoVcs
  /\ warningStore = <<>>

\* graph.scc = computeSCC(graph), the last step of buildGraph
AttachSCC ==
  /\ "scc" \notin DOMAIN graph
  /\ graph' = [files |-> graph.files, forward |-> graph.forward,
               reverse |-> graph.reverse, scc |-> computeSCC(graph)]
  /\ last' = [op |-> "scc"]
  /\ UNCHANGED <<disk, fcache, pending, memo, nEvents, watch, fcGraph, coupling, vcs, warningStore>>

\* The cache-miss computation of analyzeImpact(f) on the graph
Analyze(f) ==
  /\ Includes(graph.files, f)
  /\ last' = [op |-> "fresh", file |-> f, result |-> freshImpact(f, graph)]
  /\ UNCHANGED <<disk, fcache, pending, graph, memo, nEvents, watch, fcGraph, coupling, vcs, warningStore>>

NextAnalysis ==
  \/ AttachSCC
  \/ \E f \in AllFiles : Analyze(f)

SpecAnalysis == InitAnalysis /\ [][NextAnalysis]_vars

-----------------------------------------------------------------------------
(* The traversals of built graphs, with what they visit *)

\* graph.scc = computeSCC(graph); last.entered lists the calls of
\* strongConnect
ComputeSCC ==
  /\ "scc" \notin DOMAIN graph
  /\ graph' = [files |-> graph.files, forward |-> graph.forward,
               reverse |-> graph.reverse, scc |-> computeSCC(graph)]
  /\ last' = [op |-> "computeSCC", entered |-> tarjan(graph).entered]
  /\ UNCHANGED <<disk, fcache, pending, memo, nEvents, watch, fcGraph, coupling, vcs, warningStore>>

\* computeAffectedFiles(filePath, graph), as the updater calls it for a file
\* of the graph or one it has just removed; last.shifted lists the files
\* taken from the queue
ComputeAffectedFiles(filePath) ==
  /\ With(affectedLoop(graph, <<filePath>>, <<filePath>>, <<>>), LAMBDA r :
       last' = [op |-> "computeAffectedFiles", file |-> filePath,
                result |-> computeAffectedFiles(filePath, graph), shifted |-> r.shifted])
  /\ UNCHANGED <<disk, fcache, pending, graph, memo, nEvents, watch, fcGraph, coupling, vcs, warningStore>>

\* The cache-miss computation of analyzeImpact for a file of the graph:
\* analyzeImpactBFS while the graph has no SCC result, analyzeImpactWithSCC
\* once it has; last.shifted lists the files, or the SCC indices, taken from
\* the queue
FreshImpact(normalized) ==
  /\ Includes(graph.files, normalized)
  /\ last' =
       IF "scc" \in DOMAIN graph /\ MapHas(graph.scc.nodeToComponent, normalized)
       THEN With(graph.scc.nodeToComponent[normalized], LAMBDA sccIndex :
              [op |-> "analyzeImpactWithSCC", file |-> normalized,
               result |-> freshImpact(normalized, graph),
               shifted |-> sccBfsLoop(graph.scc.condensed, << <<sccIndex, 0>> >>,
                                      << <<sccIndex, 0>> >>, <<>>).shifted])
       ELSE With(MapGet(graph.reverse, normalized, <<>>), LAMBDA directDependents :
              [op |-> "analyzeImpactBFS", file |-> normalized,
               result |-> freshImpact(normalized, graph),
               shifted |-> bfsLoop(graph, normalized, Dedup(directDependents),
                                   directDependents, <<>>).shifted])
  /\ UNCHANGED <<disk, fcache, pending, graph, memo, nEvents, watch, fcGraph, coupling, vcs, warningStore>>

NextVisits ==
  \/ ComputeSCC
  \/ \E filePath \in AllFiles : ComputeAffectedFiles(filePath)
  \/ \E normalized \in AllFiles : FreshImpact(normalized)

\* Every traversal applied to every built graph, before and after the SCC
\* result is attached
SpecVisits == InitAnalysis /\ [][NextVisits]_vars

-----------------------------------------------------------------------------
(* The analyser and the hub ranking on projects built around a hub file *)

\* The content of the i-th importer: a line of code and rep import lines,
\* all of the hub (a star) or all of the importer before it (a chain)
importerContent(shape, rep, i) ==
  <<Code>> \o [k \in 1..rep |-> IF shape = "star" \/ i = 1 THEN HubFile ELSE Importers[i - 1]]

\* The hub and its first n importers
HubProject(shape, rep, n) ==
  [f \in {HubFile} \cup {Importers[i] : i \in 1..n} |->
     IF f = HubFile THEN <<Code>> ELSE importerContent(shape, rep, IndexOf(Importers, f))]

HubProjects ==
  {HubProject(shape, rep, n) :
     shape \in {"star", "chain"}, rep \in 1..MaxImports, n \in 0..MaxImporters}

InitHub == startup(HubProjects)

\* analyzeImpact(f, graph) called with any file identifier
AnalyzeImpact(f) ==
  /\ memo.hits + memo.misses < MaxQueries
  /\ With(analyzeImpact(f, graph, memo), LAMBDA r :
       /\ memo' = r.memo
       /\ last' = [op |-> "analyze", file |-> f, result |-> r.result])
  /\ UNCHANGED <<disk, fcache, pending, graph, nEvents, watch, fcGraph, coupling, vcs, warningStore>>

\* getHubFiles(graph, topN)
GetHubFiles(topN) ==
  /\ last' = [op |-> "hubs", topN |-> topN, result |-> getHubFiles(graph, topN)]
  /\ UNCHANGED <<disk, fcache, pending, graph, memo, nEvents, watch, fcGraph, coupling, vcs, warningStore>>

NextHub ==
  \/ \E f \in {HubFile} \cup Range(Importers) : AnalyzeImpact(f)
  \/ \E topN \in 0..MaxTopN : GetHubFiles(topN)

SpecHub == InitHub /\ [][NextHub]_vars

-----------------------------------------------------------------------------
(* Sessions with edits and queries *)

\* Projects of files that hold a line of code and no import
InitEdits == startup({d \in Disks(0) : \A f \in DOMAIN d : d[f] = <<Code>>})

\* The contents written during the session: at most MaxEditImports imports
EditContents == {c \in Contents : Len(c) <= MaxEditImports + 1}

NextEdits ==
  \/ \E f \in AllFiles, c \in EditContents : DiskWrite(f, c, MaxEdits)
  \/ \E f \in AllFiles : DiskDelete(f, MaxEdits)
  \/ \E f \in AllFiles : Fire(f, FALSE)
  \/ \E f \in AllFiles : Query(f)

\* The watcher maintaining the graph of a project that starts without
\* imports, with impact queries between the events
SpecEdits == InitEdits /\ [][NextEdits]_vars

\* The chain of scenario S1: a imports b, b imports c
S1Project == [f \in AllFiles |-> IF f = "a" THEN <<Code, "b">>
                                 ELSE IF f = "b" THEN <<Code, "c">> ELSE <<Code>>]

InitS1 == startup({S1Project})

NextS1 ==
  \/ \E f \in AllFiles, c \in Contents : DiskWrite(f, c, MaxEvents)
  \/ \E f \in AllFiles : DiskDelete(f, MaxEvents)
  \/ \E f \in AllFiles : Fire(f, FALSE)
  \/ \E f \in AllFiles : Query(f)

\* A session on the project of S1: one edit, its event, and queries
SpecS1 == InitS1 /\ [][NextS1]_vars

-----------------------------------------------------------------------------
(* Sessions with a graph refresh or a project switch *)

\* The refresh_graph tool: rebuildGraph drops cachedGraph, resets the memo
\* cache and builds a new graph object, which becomes cachedGraph; the
\* coupling cache is invalidated and the memo statistics are read.  The
\* FileCache is not touched: it keeps the graph object it was given.
RefreshGraph ==
  /\ graph' = buildGraph(disk, 0)
  /\ fcGraph' = Some(watcherGraph)
  /\ memo' = resetMemoCache(resetMemoCache(memo))
  /\ coupling' = invalidateCouplingCache(coupling)
  /\ last' = [op |-> "refresh", stats |-> stats(memo')]
  /\ UNCHANGED <<disk, fcache, pending, nEvents, watch, vcs, warningStore>>

\* switchProject (to the root that is open): the old FileCache is stopped, a
\* new one is created and initialized, the graph is rebuilt and handed to
\* the new FileCache, which starts watching.
SwitchProject ==
  /\ fcache' = disk
  /\ pending' = {}
  /\ graph' = buildGraph(disk, 0)
  /\ fcGraph' = Undefined
  /\ memo' = resetMemoCache(resetMemoCache(memo))
  /\ watch' = startWatching(newFileCache(SourceDirs))
  /\ last' = [op |-> "switch"]
  /\ UNCHANGED <<disk, nEvents, coupling, vcs, warningStore>>

NextRefresh ==
  \/ \E f \in AllFiles, c \in EditContents : DiskWrite(f, c, MaxRefreshEdits)
  \/ \E f \in AllFiles : DiskDelete(f, MaxRefreshEdits)
  \/ \E f \in AllFiles : Fire(f, FALSE)
  \/ \E f \in AllFiles : Query(f)
  \/ \E topN \in 0..MaxTopN : GetHubFiles(topN)
  \/ RefreshGraph
  \/ SwitchProject

\* A session in which the graph is refreshed or the project switched while
\* the watcher is running
SpecRefresh == InitEdits /\ [][NextRefresh]_vars

-----------------------------------------------------------------------------
(* Projects with several source directories, built by either builder *)

\* The directories getSourceDirs enumerates, in order, each with the paths
\* it can hold
DirLayouts ==
  {<< <<"a", "b", "c">> >>,
   << <<"a", "b">>, <<"c">> >>,
   << <<"c">>, <<"a", "b">> >>,
   << <<"a">>, <<"b">>, <<"c">> >>}

\* The files are on disk, no graph is built yet
InitBuild ==
  /\ disk \in Disks(MaxImports)
  /\ watch \in {newFileCache(dirs) : dirs \in DirLayouts}
  /\ fcache = EmptyMap
  /\ pending = {}
  /\ graph = buildGraph(EmptyMap, 0)
  /\ memo = createMemoCache(DefaultMaxSize)
  /\ last = NoOp
  /\ nEvents = 0
  /\ fcGraph = Undefined
  /\ coupling = NoCoupling
  /\ vcs = NoVcs
  /\ warningStore = <<>>

BuildGraph(maxFiles) ==
  /\ graph' = buildGraphIn(watch.sourceDirs, disk, maxFiles)
  /\ memo' = resetMemoCache(memo)
  /\ last' = [op |-> "buildGraph", maxFiles |-> maxFiles]
  /\ UNCHANGED <<disk, fcache, pending, nEvents, watch, fcGraph, coupling, vcs, warningStore>>

BuildGraphAsync(maxFiles) ==
  /\ With(buildGraphAsync(watch.sourceDirs, disk, maxFiles), LAMBDA r :
       /\ graph' = r.graph
       /\ last' = [op |-> "buildGraphAsync", maxFiles |-> maxFiles,
                   contentMap |-> r.contentMap])
  /\ memo' = resetMemoCache(memo)
  /\ UNCHANGED <<disk, fcache, pending, nEvents, watch, fcGraph, coupling, vcs, warningStore>>

\* maxFiles: no limit, or the limit of a project of two files
FileLimits == {0, 2}

NextBuild ==
  \/ \E maxFiles \in FileLimits : BuildGraph(maxFiles)
  \/ \E maxFiles \in FileLimits : BuildGraphAsync(maxFiles)

\* A project built by buildGraph or by buildGraphAsync
SpecBuild == InitBuild /\ [][NextBuild]_vars

-----------------------------------------------------------------------------
(* Sessions that mine the commit history *)

\* The file lines git log --name-only prints for one commit
CommitKinds ==
  {<<>>, <<"A">>, <<"A", "B">>, <<"B", "A">>, <<"A", "C">>, <<"A", "B", "C">>,
   <<"A", "pkg.lock">>}

Histories == SeqsUpTo(CommitKinds, MaxCommits)

Roots == <<"r1", "r2">>

\* mineGitHistory(projectRoot) without options, as go.ts and gate-build.ts
\* call it
NoOptions ==
  [maxCommits |-> Undefined, minSupport |-> Undefined,
   minConfidence |-> Undefined, maxFilesPerCommit |-> Undefined]

\* CouplingOptions: each field is optional
MineOptions ==
  [maxCommits : {Undefined},
   minSupport : {Undefined, Some(1), Some(2)},
   minConfidence : {Undefined, Some(<<1, 1>>)},
   maxFilesPerCommit : {Undefined, Some(2)}]

\* The session before the first call on the disk of a project whose roots
\* are in the states repos; last.minedAt records, for each root, when the git
\* commands last ran for it since the last invalidateCouplingCache
startMining(reposSet) ==
  /\ vcs \in {[repos |-> repos, now |-> 0] : repos \in reposSet}
  /\ warningStore = <<>>
  /\ coupling = NoCoupling
  /\ last = [op |-> "none", minedAt |-> EmptyMap]
  /\ disk = EmptyMap
  /\ fcache = EmptyMap
  /\ pending = {}
  /\ graph = buildGraph(EmptyMap, 0)
  /\ memo = createMemoCache(0)
  /\ nEvents = 0
  /\ watch = newFileCache(<<>>)
  /\ fcGraph = Undefined

\* await mineGitHistory(projectRoot, options)
MineGitHistory(projectRoot, options) ==
  /\ With(mineGitHistory(coupling, vcs, projectRoot, options), LAMBDA r :
       /\ coupling' = r.coupling
       /\ last' = [op |-> "mine", projectRoot |-> projectRoot, options |-> options,
                   result |-> r.result, mined |-> r.mined,
                   minedAt |-> IF r.mined THEN MapPut(last.minedAt, projectRoot, vcs.now)
                               ELSE last.minedAt])
  /\ UNCHANGED <<disk, fcache, pending, graph, memo, nEvents, watch, fcGraph, vcs, warningStore>>

InvalidateCouplingCache ==
  /\ coupling' = invalidateCouplingCache(coupling)
  /\ last' = [op |-> "invalidateCoupling", minedAt |-> EmptyMap]
  /\ UNCHANGED <<disk, fcache, pending, graph, memo, nEvents, watch, fcGraph, vcs, warningStore>>

InitMine == startMining({[r \in {Roots[1]} |-> Repo(h)] : h \in Histories})

NextMine ==
  \/ \E options \in MineOptions : MineGitHistory(Roots[1], options)
  \/ InvalidateCouplingCache

\* One repository with any history, mined with any thresholds
SpecMine == InitMine /\ [][NextMine]_vars

\* The counters of mineGitHistory before the loop over the commits
NoCounts ==
  [fileChangeCount |-> [keys |-> <<>>, count |-> EmptyMap],
   pairCoChangeCount |-> [keys |-> <<>>, count |-> EmptyMap],
   totalCommitsAnalyzed |-> 0]

\* The loop over the commits is entered with one of two maxFilesPerCommit
InitCount ==
  /\ last \in {[op |-> "counting", counts |-> NoCounts, maxFilesPerCommit |-> m] :
                 m \in {2, DEFAULT_MAX_FILES_PER_COMMIT}}
  /\ vcs = NoVcs
  /\ warningStore = <<>>
  /\ coupling = NoCoupling
  /\ disk = EmptyMap
  /\ fcache = EmptyMap
  /\ pending = {}
  /\ graph = buildGraph(EmptyMap, 0)
  /\ memo = createMemoCache(0)
  /\ nEvents = 0
  /\ watch = newFileCache(<<>>)
  /\ fcGraph = Undefined

\* One iteration of the loop, for a commit parseGitLog kept
CountCommit(commitFiles) ==
  /\ last.counts.totalCommitsAnalyzed < MaxCommits
  /\ last' = [op |-> "count", commitFiles |-> commitFiles, before |-> last.counts,
              counts |-> countCommit(last.counts, commitFiles, last.maxFilesPerCommit),
              maxFilesPerCommit |-> last.maxFilesPerCommit]
  /\ UNCHANGED <<disk, fcache, pending, graph, memo, nEvents, watch, fcGraph, coupling, vcs, warningStore>>

NextCount == \E commitFiles \in CommitKinds \ {<<>>} : CountCommit(commitFiles)

\* The counting loop of mineGitHistory, commit by commit
SpecCount == InitCount /\ [][NextCount]_vars

\* The history of scenario S5: (A,B) three times and (A,C) once
S5History == << <<"A", "B">>, <<"A", "C">>, <<"A", "B">>, <<"B", "A">> >>

RepoStates == {NotARepo, LogFails, Repo(S5History)}

\* Date.now() advances by half the cache lifetime
ClockStep == CACHE_TTL_MS \div 2

AdvanceClock ==
  /\ vcs.now < MaxMineTicks * ClockStep
  /\ vcs' = [vcs EXCEPT !.now = @ + ClockStep]
  /\ last' = [op |-> "tick", minedAt |-> last.minedAt]
  /\ UNCHANGED <<disk, fcache, pending, graph, memo, nEvents, watch, fcGraph, coupling, warningStore>>

\* The options of the calls of SpecCoupling: the defaults and lax thresholds
LaxOptions ==
  [NoOptions EXCEPT !.minSupport = Some(1), !.minConfidence = Some(<<1, 4>>)]

InitCoupling == startMining([Range(Roots) -> RepoStates])

NextCoupling ==
  \/ \E projectRoot \in Range(Roots), options \in {NoOptions, LaxOptions} :
       MineGitHistory(projectRoot, options)
  \/ InvalidateCouplingCache
  \/ AdvanceClock

\* Two project roots mined while the clock advances
SpecCoupling == InitCoupling /\ [][NextCoupling]_vars

-----------------------------------------------------------------------------
(* Build gate: the warning store of server.ts and gateCheck *)

MAX_WARNINGS == 50

\* addWarning: a warning that is not SAFE goes to the front of the store,
\* which is capped at MAX_WARNINGS
addWarning(store, analysis) ==
  IF analysis.riskLevel = "SAFE" THEN store
  ELSE
    With(<<[file |-> analysis.file, riskLevel |-> analysis.riskLevel,
            brokenImports |-> analysis.brokenImports, acknowledged |-> FALSE]>>
           \o store, LAMBDA unshifted :
      SubSeq(unshifted, 1,
             IF Len(unshifted) > MAX_WARNINGS THEN MAX_WARNINGS ELSE Len(unshifted)))

getUnacknowledgedWarnings(store) == SelectSeq(store, LAMBDA w : ~w.acknowledged)

\* acknowledgeWarnings: [store, count], every warning of the store
\* acknowledged, count the number of those that were not
acknowledgeWarnings(store) ==
  [store |-> [i \in DOMAIN store |-> [store[i] EXCEPT !.acknowledged = TRUE]],
   count |-> Len(getUnacknowledgedWarnings(store))]

\* null for SAFE and any other level
mapRiskToSeverity(riskLevel) ==
  IF riskLevel \in {"CRITICAL", "HIGH", "MEDIUM", "LOW"} THEN Some(riskLevel)
  ELSE Undefined

\* w.file === f || f.endsWith(w.file) || w.file.endsWith(f): w.file is the
\* relative path of the analysed file and f an absolute path; no name of the
\* model is a proper suffix of another
warningConcerns(w, f) == toAbsolute(w.file) = f

\* detectCyclesWithSCC on a graph that has its SCC data, as every graph
\* getGraph returns has: [cycle, file] for each cyclic component that holds
\* one of the files, reported once
detectCyclesWithSCC(files, G) ==
  FoldSeq(LAMBDA acc, file :
            IF ~Includes(G.files, file) THEN acc
            ELSE IF ~MapHas(G.scc.nodeToComponent, file) THEN acc
            ELSE
              With(G.scc.nodeToComponent[file], LAMBDA sccIndex :
              With(G.scc.condensed.nodes[sccIndex], LAMBDA node :
                IF ~node.isCyclic THEN acc
                ELSE IF sccIndex \in acc.reportedSCCs THEN acc
                ELSE [cycles |-> Append(acc.cycles,
                                        [cycle |-> Append(node.files, node.files[1]),
                                         file |-> file]),
                      reportedSCCs |-> acc.reportedSCCs \cup {sccIndex}])),
          [cycles |-> <<>>, reportedSCCs |-> {}], files).cycles

\* path.relative(graph.projectRoot, f): the path git log prints for f
gitRelativePath(f) ==
  IF f = "a" THEN "A" ELSE IF f = "b" THEN "B" ELSE IF f = "c" THEN "C" ELSE f

\* path.normalize(path.join(graph.projectRoot, otherFile))
gitAbsolutePath(g) ==
  IF g = "A" THEN "a" ELSE IF g = "B" THEN "b" ELSE IF g = "C" THEN "c" ELSE g

getCoupledFiles(filePath, result) == MapGet(result.fileCouplings, filePath, <<>>)

\* Step 3 of gateCheck: an issue for each specified file of the graph that
\* is among the five files with the most dependents
hubIssues(G, specifiedFiles) ==
  With([i \in DOMAIN G.files |->
          [file |-> G.files[i], count |-> Len(MapGet(G.reverse, G.files[i], <<>>))]],
       LAMBDA hubEntries :
  With(FoldSeq(insertByCount, <<>>, hubEntries), LAMBDA sorted :
  With(SubSeq(sorted, 1, IF 5 < Len(sorted) THEN 5 ELSE Len(sorted)), LAMBDA top5 :
    FoldSeq(LAMBDA issues, f :
              IF ~Includes(G.files, f) THEN issues
              ELSE IF ~\E i \in DOMAIN top5 : top5[i].file = f THEN issues
              ELSE
                With(CHOOSE i \in DOMAIN top5 :
                       /\ top5[i].file = f
                       /\ \A j \in 1..(i - 1) : top5[j].file # f, LAMBDA i :
                With(IF top5[i].count >= 10 THEN "HIGH"
                     ELSE IF top5[i].count >= 5 THEN "MEDIUM" ELSE "LOW", LAMBDA riskLevel :
                  Append(issues,
                         [file |-> toRelative(f),
                          severity |-> IF riskLevel = "HIGH" THEN "HIGH" ELSE "MEDIUM",
                          description |-> <<"hub", top5[i].count, riskLevel>>]))),
            <<>>, specifiedFiles))))

\* Step 4 of gateCheck: an issue for each coupling of a specified file of
\* the graph with a file that is neither specified nor its neighbour in the
\* graph, of confidence 0.3 at least
couplingIssues(G, couplingResult, specifiedFiles) ==
  IF couplingResult.totalCommitsAnalyzed <= 0 THEN <<>>
  ELSE
    With({gitRelativePath(f) : f \in Range(specifiedFiles)}, LAMBDA modifiedSet :
      FoldSeq(LAMBDA issues, f :
                IF ~Includes(G.files, f) THEN issues
                ELSE
                  With(gitRelativePath(f), LAMBDA gitRelPath :
                    FoldSeq(LAMBDA acc, c :
                              With(IF c.file1 = gitRelPath THEN c.file2 ELSE c.file1,
                                   LAMBDA otherFile :
                                IF otherFile \in modifiedSet THEN acc
                                ELSE IF \/ Includes(MapGet(G.forward, f, <<>>),
                                                    gitAbsolutePath(otherFile))
                                        \/ Includes(MapGet(G.reverse, f, <<>>),
                                                    gitAbsolutePath(otherFile))
                                THEN acc
                                ELSE IF RatLess(c.confidence, <<3, 10>>) THEN acc
                                ELSE Append(acc,
                                       [file |-> toRelative(f),
                                        severity |-> IF RatLess(c.confidence, <<1, 2>>)
                                                     THEN "LOW" ELSE "MEDIUM",
                                        description |->
                                          <<"coupling", otherFile, c.coChangeCount>>])),
                            issues, getCoupledFiles(gitRelPath, couplingResult))),
              <<>>, specifiedFiles))

\* gateCheck(graph, specifiedFiles) on the warning store, the miner's cache C
\* and the environment V: [result, store, coupling]. specifiedFiles is
\* Undefined or Some(files); an empty array is a specification too.
gateCheck(G, store, C, V, projectRoot, specifiedFiles) ==
  With(getUnacknowledgedWarnings(store), LAMBDA allWarnings :
  With(IF specifiedFiles # Undefined
       THEN SelectSeq(allWarnings,
                      LAMBDA w : \E f \in Range(specifiedFiles[1]) : warningConcerns(w, f))
       ELSE allWarnings, LAMBDA warnings :
  With(MapSeq(LAMBDA w : [file |-> w.file, severity |-> w.riskLevel,
                          description |-> <<"warning", w.brokenImports>>],
              SelectSeq(warnings, LAMBDA w : mapRiskToSeverity(w.riskLevel) # Undefined)),
       LAMBDA warningIssues :
  With(detectCyclesWithSCC(OrDefault(specifiedFiles, <<>>), G), LAMBDA cycles :
  With(MapSeq(LAMBDA c : [file |-> toRelative(c.file), severity |-> "CRITICAL",
                          description |-> <<"cycle", MapSeq(toRelative, c.cycle)>>],
              cycles), LAMBDA cycleIssues :
  With(IF specifiedFiles = Undefined THEN [coupling |-> C, result |-> emptyResult(V.now)]
       ELSE mineGitHistory(C, V, projectRoot, NoOptions), LAMBDA mined :
  With(warningIssues \o cycleIssues
         \o (IF specifiedFiles = Undefined THEN <<>>
             ELSE hubIssues(G, specifiedFiles[1])
                    \o couplingIssues(G, mined.result, specifiedFiles[1])),
       LAMBDA issues :
  With(\E i \in DOMAIN issues : issues[i].severity = "CRITICAL", LAMBDA hasCritical :
  With(SelectSeq(issues, LAMBDA i : i.severity = "HIGH"), LAMBDA highIssues :
  With(/\ Len(highIssues) > 0
       /\ \E k \in DOMAIN warnings : /\ warnings[k].riskLevel = "HIGH"
                                     /\ Len(warnings[k].brokenImports) > 0,
       LAMBDA hasHighWithBroken :
  With(IF hasCritical \/ hasHighWithBroken \/ Len(cycles) > 0 THEN "FAIL"
       ELSE IF \/ Len(highIssues) > 0
               \/ \E i \in DOMAIN issues : issues[i].severity = "MEDIUM" THEN "WARN"
       ELSE "PASS", LAMBDA verdict :
  With(IF verdict = "PASS" THEN acknowledgeWarnings(store)
       ELSE [store |-> store, count |-> 0], LAMBDA acked :
    [result |-> [verdict |-> verdict, issues |-> issues,
                 stats |-> [filesInGraph |-> Len(G.files),
                            unresolvedWarnings |-> Len(allWarnings),
                            sccCount |-> Len(G.scc.condensed.nodes),
                            cyclicSCCs |-> Len(SelectSeq(G.scc.condensed.nodes,
                                                         LAMBDA n : n.isCyclic))],
                 autoAcknowledged |-> acked.count],
     store |-> acked.store,
     coupling |-> mined.coupling]))))))))))))

-----------------------------------------------------------------------------
(* Sessions of the build gate *)

MaxWarnings == 2

\* A project of six files without imports: its last file is not among the
\* five files gateCheck takes for hubs
SixFiles == [f \in {"a", "b", "c", HubFile, "u", "v"} |-> <<Code>>]

GateProjects == {d \in Projects : DOMAIN d \subseteq {"a", "b"}} \cup {SixFiles}

\* The analyses real-time analysis may hand to addWarning
Analyses ==
  {[file |-> toRelative(f), riskLevel |-> k[1], brokenImports |-> k[2]] :
     f \in {"a", "v"},
     k \in {<<"CRITICAL", <<>>>>, <<"HIGH", <<"x">>>>, <<"HIGH", <<>>>>,
            <<"MEDIUM", <<>>>>, <<"LOW", <<>>>>, <<"SAFE", <<>>>>}}

\* The files argument of the gate_build tool, resolved
SpecifiedFiles ==
  {Undefined, Some(<<>>), Some(<<"a">>), Some(<<"b">>), Some(<<"v">>), Some(<<"a", "b">>)}

InitGate ==
  /\ disk \in GateProjects
  /\ fcache = disk
  /\ pending = {}
  /\ graph = buildGraph(disk, 0)
  /\ memo = createMemoCache(DefaultMaxSize)
  /\ last = [op |-> "none"]
  /\ nEvents = 0
  /\ watch = newFileCache(<<>>)
  /\ fcGraph = Undefined
  /\ coupling = NoCoupling
  /\ vcs \in {[repos |-> [r \in {Roots[1]} |-> h], now |-> 0] :
                h \in {NotARepo, Repo(S5History)}}
  /\ warningStore = <<>>

\* The "change" listener stores the analysis of a change
AddWarning(analysis) ==
  /\ Len(warningStore) < MaxWarnings
  /\ warningStore' = addWarning(warningStore, analysis)
  /\ last' = [op |-> "addWarning", analysis |-> analysis]
  /\ UNCHANGED <<disk, fcache, pending, graph, memo, nEvents, watch, fcGraph, coupling, vcs>>

\* The gate_build tool
GateCheck(specifiedFiles) ==
  /\ With(gateCheck(graph, warningStore, coupling, vcs, Roots[1], specifiedFiles),
          LAMBDA r :
       /\ warningStore' = r.store
       /\ coupling' = r.coupling
       /\ last' = [op |-> "gateCheck", specifiedFiles |-> specifiedFiles,
                   before |-> warningStore, result |-> r.result])
  /\ UNCHANGED <<disk, fcache, pending, graph, memo, nEvents, watch, fcGraph, vcs>>

NextGate ==
  \/ \E analysis \in Analyses : AddWarning(analysis)
  \/ \E specifiedFiles \in SpecifiedFiles : GateCheck(specifiedFiles)

\* Warnings arriving between calls of the build gate
SpecGate == InitGate /\ [][NextGate]_vars

-----------------------------------------------------------------------------
(* Properties of the memo cache *)

\* The resident keys invalidate(files) has to remove from cache map C
staleKeys(C, files) ==
  {k \in DOMAIN C : k \in Range(files) \/ Range(C[k].impactSet) \cap Range(files) # {}}

\* C6: invalidate(files) removes exactly the resident keys k with k in files
\* or impactSet(k) meeting files, leaves every other resident entry's value
\* and recency position unchanged, and returns the number of removed entries.
InvalidateRemovesExactlyStale ==
  [][last'.op = "invalidate" =>
       LET removed == staleKeys(memo.cache, last'.files) IN
         /\ DOMAIN memo'.cache = DOMAIN memo.cache \ removed
         /\ \A k \in DOMAIN memo'.cache : memo'.cache[k] = memo.cache[k]
         /\ memo'.accessOrder = SelectSeq(memo.accessOrder, LAMBDA k : k \notin removed)
         /\ last'.count = Cardinality(removed)]_vars

\* An invalidate that removed an entry through its impactSet only and left
\* another entry resident
InvalidateRemovedByImpactSet ==
  /\ last.op = "invalidate"
  /\ last.count = 1
  /\ Cardinality(last.removed) = 1
  /\ last.removed \cap Range(last.files) = {}
  /\ DOMAIN memo.cache # {}

\* C7: k is in R[f] exactly when k is resident and f is in k's impactSet or
\* f = k, and R maps no file to an empty set.
ReverseIndexExact ==
  /\ \A f \in AllFiles, k \in AllFiles :
       (MapHas(memo.reverseIndex, f) /\ k \in memo.reverseIndex[f])
         <=> (MapHas(memo.cache, k) /\ (f \in Range(memo.cache[k].impactSet) \/ f = k))
  /\ \A f \in DOMAIN memo.reverseIndex : memo.reverseIndex[f] # {}

\* A set that evicted an entry whose impactSet shared a file with a resident one
ReverseIndexAfterEviction ==
  /\ last.op = "set"
  /\ last.evicted # {}
  /\ \E f \in DOMAIN memo.reverseIndex : Cardinality(memo.reverseIndex[f]) = 2
  /\ \E k \in last.evicted : \E f \in DOMAIN memo.reverseIndex : f \in Range(last.entry.impactSet) \cup {k}

\* C8: after set the cache holds at most maxSize entries; the keys a set
\* evicts are the least recently used ones, the recency order being the one
\* in which a get hit or a set moves its key to the most recent end; the key
\* set stays resident when maxSize >= 1.
SetEvictsLeastRecentlyUsed ==
  [][/\ last'.op = "get" /\ last'.entry # Undefined =>
          memo'.accessOrder =
            Append(SelectSeq(memo.accessOrder, LAMBDA k : k # last'.key), last'.key)
     /\ last'.op = "get" /\ last'.entry = Undefined =>
          memo'.accessOrder = memo.accessOrder
     /\ last'.op = "set" =>
          LET recency == Append(SelectSeq(memo.accessOrder, LAMBDA k : k # last'.key),
                                last'.key)
              evicted == Range(recency) \ DOMAIN memo'.cache
          IN /\ Cardinality(DOMAIN memo'.cache) <= memo.maxSize
             /\ Range(memo.accessOrder) = DOMAIN memo.cache
             /\ evicted = Range(SubSeq(recency, 1, Cardinality(evicted)))
             /\ memo'.accessOrder = SubSeq(recency, Cardinality(evicted) + 1, Len(recency))
             /\ Cardinality(evicted) =
                  (IF Len(recency) > memo.maxSize THEN Len(recency) - memo.maxSize ELSE 0)
             /\ memo.maxSize >= 1 => MapHas(memo'.cache, last'.key)]_vars

\* A set on a full cache of size 2 after a get hit refreshed the older key:
\* the key that was not refreshed is the one gone
SetEvictedUnrefreshedKey ==
  /\ last.op = "set"
  /\ last.key = "c"
  /\ last.evicted = {"b"}
  /\ memo.maxSize = 2
  /\ memo.hits = 1 /\ memo.misses = 0
  /\ memo.accessOrder = <<"a", "c">>

-----------------------------------------------------------------------------
(* Properties of the graph under the watcher *)

Edges(m) == {<<a, b>> \in AllFiles \X AllFiles : Includes(MapGet(m, a, <<>>), b)}

\* C1: after buildGraph and any sequence of update/add/remove calls, b is in
\* Forward[a] if and only if a is in Reverse[b], for all files a and b.
ForwardReverseTranspose ==
  \A a \in AllFiles, b \in AllFiles :
    Includes(MapGet(graph.forward, a, <<>>), b) <=> Includes(MapGet(graph.reverse, b, <<>>), a)

\* The SCC result p is a partition of the file list files, with its index map
IsPartitionOf(p, files) ==
  /\ \A i \in DOMAIN p.components : p.components[i] # <<>>
  /\ \A i \in DOMAIN p.components : Range(p.components[i]) \subseteq Range(files)
  /\ \A f \in Range(files) :
       Cardinality({<<i, j>> \in (DOMAIN p.components) \X (1..Cardinality(AllFiles)) :
                      j \in DOMAIN p.components[i] /\ p.components[i][j] = f}) = 1
  /\ DOMAIN p.nodeToComponent = Range(files)
  /\ \A f \in Range(files) :
       /\ p.nodeToComponent[f] \in DOMAIN p.components
       /\ f \in Range(p.components[p.nodeToComponent[f]])

\* C4: after buildGraph and after any sequence of incremental events, the
\* SCC result attached to the graph is a partition of the current Files and
\* NodeToComponent maps each file to the index of its component.
SCCPartitionsFiles == IsPartitionOf(graph.scc, graph.files)

\* The components of an SCC result as a set of sets of files
ComponentSets(p) == {Range(p.components[i]) : i \in DOMAIN p.components}

\* C3: once every event has been applied, the graph has the same Files,
\* Forward, Reverse and SCC result as a from-scratch build on the final
\* filesystem, except that edges into files may be missing (the permitted
\* lag, taken here as any missing edge).
IncrementalEqualsScratch ==
  pending = {} =>
    With(buildGraph(disk, 0), LAMBDA scratch :
      /\ Range(graph.files) = Range(scratch.files)
      /\ Edges(graph.forward) \subseteq Edges(scratch.forward)
      /\ \A f \in AllFiles :
           Range(MapGet(graph.reverse, f, <<>>)) \subseteq Range(MapGet(scratch.reverse, f, <<>>))
      /\ Edges(graph.forward) = Edges(scratch.forward) =>
           ComponentSets(graph.scc) = ComponentSets(scratch.scc))

\* Position of the first entry of a handler log with the given step, 0 if none
stepAt(log, step) ==
  IF \E i \in DOMAIN log : log[i].step = step
  THEN CHOOSE i \in DOMAIN log : log[i].step = step /\ \A j \in 1..(i-1) : log[j].step # step
  ELSE 0

\* C9: for every change the watcher reports, the incremental updater has
\* been applied to the graph before the change event reaches an observer.
UpdaterBeforeChangeEvent ==
  (last.op = "event" /\ stepAt(last.log, "change") # 0) =>
    /\ stepAt(last.log, "apply") # 0
    /\ stepAt(last.log, "apply") < stepAt(last.log, "change")

\* C10: no subscriber of change or graph-updated runs over a memo cache
\* already invalidated for an event whose graph update is not yet applied,
\* and for one file the order is apply, then invalidate, then notify.
ApplyInvalidateNotifyOrder ==
  last.op = "event" =>
    \A j \in DOMAIN last.log :
      last.log[j].step \in {"change", "graph-updated"} =>
        /\ \E i \in 1..(j-1) : last.log[i].step = "apply"
        /\ \A k \in DOMAIN last.log :
             last.log[k].step = "invalidate" =>
               (k < j /\ \E i \in 1..(k-1) : last.log[i].step = "apply")

-----------------------------------------------------------------------------
(* Properties of the memoised impact analyser *)

\* Two impact results agree on dependents (as sets), total and risk level
SameImpact(r1, r2) ==
  /\ Range(r1.directDependents) = Range(r2.directDependents)
  /\ Range(r1.transitiveDependents) = Range(r2.transitiveDependents)
  /\ r1.totalImpacted = r2.totalImpacted
  /\ r1.riskLevel = r2.riskLevel

\* C2: after the watcher has applied an added, modified or deleted event,
\* analyzeImpact(k) of every file k of the graph returns the dependents,
\* total and risk level of a fresh computation on the current graph,
\* whichever files were cached before the event.
ImpactFreshAfterEvent ==
  (last.op = "event" /\ last.type # "none") =>
    \A k \in Range(graph.files) :
      SameImpact(analyzeImpact(k, graph, memo).result, freshImpact(k, graph))

\* C5: with no graph mutation between two analyzeImpact(f) calls, the
\* second (a cache hit) returns the same dependents, total, risk level and
\* cascade levels as the first, freshly computed one.
CacheHitEqualsFresh ==
  [][(/\ last.op = "analyze" /\ last'.op = "analyze"
      /\ last'.file = last.file
      /\ ~last.result.fromCache /\ last'.result.fromCache)
       => /\ SameImpact(last'.result, last.result)
          /\ last'.result.cascadeLevels = last.result.cascadeLevels]_vars

-----------------------------------------------------------------------------
(* Properties of the watcher's timers *)

\* The timeouts armed in the runtime for path f
TimeoutsOf(W, f) == {t \in W.timeouts : t[1] = f}

\* C11: once stop() has been called, whatever the number of source
\* directories, no timeout of the FileCache is armed and none is armed later,
\* and the FileCache runs no handler: it emits no change or graph-updated
\* event and changes neither its graph nor the memo cache.
StopSilencesFileCache ==
  [][/\ watch'.stopped => (watch'.timeouts = {} /\ watch'.debounceTimers = EmptyMap)
     /\ watch.stopped => (last'.op # "event" /\ graph' = graph /\ memo' = memo)]_vars

\* C12: a path has a timeout armed exactly while a burst of notifications is
\* in progress for it, a single one, due one window after the last
\* notification; the handler runs only at that time, on a burst whose
\* notifications are each less than a window apart; a notification or a
\* firing for one path leaves the timeouts of the other paths as they are.
DebounceOneFiringPerBurst ==
  [][/\ \A f \in AllFiles :
          /\ watch'.events[f] # <<>> =>
               TimeoutsOf(watch', f) =
                 {<<f, watch'.events[f][Len(watch'.events[f])] + DEBOUNCE_MS>>}
          /\ watch'.events[f] = <<>> => TimeoutsOf(watch', f) = {}
     /\ last'.op = "event" =>
          /\ last'.burst # <<>>
          /\ last'.at = last'.burst[Len(last'.burst)] + DEBOUNCE_MS
          /\ \A i \in 1..(Len(last'.burst) - 1) :
               last'.burst[i + 1] - last'.burst[i] < DEBOUNCE_MS
     /\ last'.op \in {"event", "fs"} =>
          \A g \in AllFiles \ {last'.file} : TimeoutsOf(watch', g) = TimeoutsOf(watch, g)]_vars

\* The handler ran once for a burst of notifications at different times,
\* while the timeout of another path stayed armed
BurstFiredOnce ==
  /\ last.op = "event"
  /\ Len(last.burst) >= 2
  /\ last.burst[1] # last.burst[Len(last.burst)]
  /\ ~watch.stopped
  /\ DOMAIN watch.debounceTimers # {}

\* C13: when the timer of a path fires, a path that no longer exists gives
\* Deleted with oldContent the cached content and the cache entry removed; an
\* existing path without a cache entry gives Added; an existing path whose
\* content equals the cached content, the empty file included, gives no
\* event and leaves the cache and the graph as they are; any other existing
\* path gives Modified.
HandlerClassifiesEvent ==
  [][last'.op = "event" =>
       IF ~Exists(disk, last'.file) THEN
         /\ last'.type = "deleted"
         /\ last'.oldContent = (IF MapHas(fcache, last'.file)
                                THEN Some(fcache[last'.file]) ELSE Undefined)
         /\ ~MapHas(fcache', last'.file)
       ELSE IF ~MapHas(fcache, last'.file) THEN last'.type = "added"
       ELSE IF fcache[last'.file] = disk[last'.file] THEN
         /\ last'.type = "none"
         /\ last'.log = <<>>
         /\ fcache' = fcache
         /\ graph' = graph
       ELSE last'.type = "modified"]_vars

-----------------------------------------------------------------------------
(* Properties of the incremental updater *)

\* C14: applying the same add, modify or remove event a second time, the
\* file content being unchanged, leaves Files, Forward, Reverse and the SCC
\* result as they were after the first application and reports no added and
\* no removed edge.
ReplayIsIdempotent ==
  [][(last'.op = "apply" /\ last'.replay) =>
       /\ graph' = graph
       /\ last'.result.addedEdges = <<>>
       /\ last'.result.removedEdges = <<>>]_vars

\* A replayed event on a file with imports whose first application changed
\* the edges of the graph
ReplayAfterEdgeChange ==
  /\ last.op = "apply"
  /\ last.replay
  /\ last.changedBefore
  /\ MapGet(graph.forward, last.file, <<>>) # <<>>

-----------------------------------------------------------------------------
(* Properties of the impact analyser and the SCC engine on built graphs *)

\* The files of S and the files that import a file of S
WithImporters(G, S) ==
  S \cup {g \in AllFiles : \E t \in S : Includes(MapGet(G.forward, g, <<>>), t)}

RECURSIVE ReverseClosure(_, _)
\* The files from which a file of S is reachable along Forward edges
ReverseClosure(G, S) ==
  IF WithImporters(G, S) = S THEN S ELSE ReverseClosure(G, WithImporters(G, S))

\* The dependents a result lists, as absolute paths
Dependents(result) ==
  {toAbsolute(r) : r \in Range(result.directDependents) \cup Range(result.transitiveDependents)}

\* C15: for a fresh analyzeImpact(f), with or without an SCC result attached
\* to the graph, the direct and transitive dependents together are exactly
\* the files from which f is reachable along Forward edges, f excluded, and
\* totalImpacted is the number of those files.
FreshImpactIsReverseClosure ==
  last.op = "fresh" =>
    /\ Dependents(last.result) = ReverseClosure(graph, {last.file}) \ {last.file}
    /\ last.result.totalImpacted =
         Cardinality(ReverseClosure(graph, {last.file}) \ {last.file})

\* The files of the strongly connected component of f: f and the files that
\* reach f and are reached from f along Forward edges
SCCOf(G, f) == {g \in ReverseClosure(G, {f}) : f \in ReverseClosure(G, {g})}

\* C16: on the SCC-aware path, when f lies on a cycle with other files every
\* other file of f's SCC is among directDependents, also when it does not
\* import f, has cascade level 0, and circularCluster lists exactly those
\* files; when f's SCC is f alone circularCluster is absent.
CycleMatesAreDirect ==
  (last.op = "fresh" /\ "scc" \in DOMAIN graph) =>
    With(SCCOf(graph, last.file) \ {last.file}, LAMBDA mates :
      IF mates = {} THEN last.result.circularCluster = Undefined
      ELSE
        /\ last.result.circularCluster # Undefined
        /\ last.result.cascadeLevels # Undefined
        /\ {toAbsolute(r) : r \in Range(last.result.circularCluster[1])} = mates
        /\ Len(last.result.circularCluster[1]) = Cardinality(mates)
        /\ \A g \in mates :
             /\ Includes(last.result.directDependents, toRelative(g))
             /\ toRelative(g) \in DOMAIN last.result.cascadeLevels[1]
             /\ last.result.cascadeLevels[1][toRelative(g)] = 0)

\* analyzeImpact(f) for a file on a cycle of three files, one of which does
\* not import f
CycleMateNotImporting ==
  /\ last.op = "fresh"
  /\ "scc" \in DOMAIN graph
  /\ Cardinality(SCCOf(graph, last.file)) = 3
  /\ \E g \in SCCOf(graph, last.file) \ {last.file} :
       ~Includes(MapGet(graph.forward, g, <<>>), last.file)
  /\ last.result.totalImpacted = 2

RECURSIVE LevelFrom(_, _, _, _, _)
\* The number of steps from frontier, itself k steps from the start, to the
\* SCC of g, a step leading from a set of SCCs to the SCCs of the files that
\* import one of its files; seen holds the SCCs at k steps or fewer
LevelFrom(G, seen, frontier, k, g) ==
  IF g \in frontier THEN k
  ELSE IF frontier = {} THEN -1
  ELSE With(UNION {SCCOf(G, h) : h \in WithImporters(G, frontier)} \ seen, LAMBDA next :
         LevelFrom(G, seen \cup next, next, k + 1, g))

\* C17: on the SCC-aware path cascadeLevels assigns every impacted file, and
\* no other, the length of the shortest path in condensed reverse edges from
\* f's SCC to the file's SCC, the files of f's own SCC being at level 0.
CascadeLevelIsCondensedDistance ==
  (last.op = "fresh" /\ "scc" \in DOMAIN graph) =>
    /\ last.result.cascadeLevels # Undefined
    /\ DOMAIN last.result.cascadeLevels[1] =
         {toRelative(g) : g \in ReverseClosure(graph, {last.file}) \ {last.file}}
    /\ \A g \in ReverseClosure(graph, {last.file}) \ {last.file} :
         last.result.cascadeLevels[1][toRelative(g)] =
           LevelFrom(graph, SCCOf(graph, last.file), SCCOf(graph, last.file), 0, g)

\* analyzeImpact(c) on the chain a -> b -> c (S1)
CascadeLevelsOfChain ==
  /\ last.op = "fresh"
  /\ "scc" \in DOMAIN graph
  /\ last.file = "c"
  /\ Edges(graph.forward) = {<<"a", "b">>, <<"b", "c">>}
  /\ last.result.cascadeLevels[1] =
       [r \in {toRelative("a"), toRelative("b")} |-> IF r = toRelative("b") THEN 1 ELSE 2]

\* C18: in the result of computeSCC two distinct files are in the same
\* component exactly when each is reachable from the other along Forward
\* edges; a file on no cycle other than an import of itself, and a file
\* without edges, is a component of its own with isCyclic = false.
SCCIsMutualReachability ==
  ("scc" \in DOMAIN graph) =>
    /\ IsPartitionOf(graph.scc, graph.files)
    /\ \A a \in Range(graph.files), b \in Range(graph.files) :
         a # b => ((graph.scc.nodeToComponent[a] = graph.scc.nodeToComponent[b])
                     <=> b \in SCCOf(graph, a))
    /\ \A f \in Range(graph.files) :
         SCCOf(graph, f) = {f} =>
           /\ graph.scc.components[graph.scc.nodeToComponent[f]] = <<f>>
           /\ ~graph.scc.condensed.nodes[graph.scc.nodeToComponent[f]].isCyclic

\* A computed SCC result for a graph with a cycle of two files and a third
\* file whose only import is itself
SCCWithCycleAndSelfImport ==
  /\ "scc" \in DOMAIN graph
  /\ Len(graph.scc.components) = 2
  /\ \E f \in Range(graph.files) :
       /\ SCCOf(graph, f) = {f}
       /\ Includes(graph.forward[f], f)

\* C19: the topological order of the condensed graph is a permutation of
\* the SCC indices that places v before u for every condensed forward edge
\* u -> v, and the loop of topologicalSort yields every SCC, so that the
\* fallback appending the missing SCCs is not taken.
TopologicalOrderIsLinearisation ==
  ("scc" \in DOMAIN graph) =>
    With(graph.scc.condensed, LAMBDA c :
      /\ Len(c.topologicalOrder) = Len(c.nodes)
      /\ Range(c.topologicalOrder) = DOMAIN c.nodes
      /\ \A u \in DOMAIN c.nodes : \A v \in Range(c.forward[u]) :
           IndexOf(c.topologicalOrder, v) < IndexOf(c.topologicalOrder, u)
      /\ Len(kahnOrder(c.nodes, c.forward, c.reverse)) = Len(c.nodes))

\* A condensed graph of three SCCs with an edge, ordered otherwise than by
\* SCC index
TopologicalOrderReordersSCCs ==
  /\ "scc" \in DOMAIN graph
  /\ Len(graph.scc.condensed.nodes) = 3
  /\ \E u \in 1..3 : graph.scc.condensed.forward[u] # <<>>
  /\ graph.scc.condensed.topologicalOrder # <<1, 2, 3>>

\* C20: no Forward or Reverse list holds the same file twice, and every file
\* in a Forward or Reverse list is a member of Files.
EdgeListsDistinctAndInFiles ==
  /\ \A f \in DOMAIN graph.forward :
       /\ Len(graph.forward[f]) = Cardinality(Range(graph.forward[f]))
       /\ Range(graph.forward[f]) \subseteq Range(graph.files)
  /\ \A f \in DOMAIN graph.reverse :
       /\ Len(graph.reverse[f]) = Cardinality(Range(graph.reverse[f]))
       /\ Range(graph.reverse[f]) \subseteq Range(graph.files)

-----------------------------------------------------------------------------
(* Properties of the analyser's interface and of the hub ranking *)

\* An impact result carries a risk level, the dependents and their total
IsImpactResult(r) ==
  {"riskLevel", "directDependents", "transitiveDependents", "totalImpacted"}
    \subseteq DOMAIN r

\* C21: analyzeImpact(f) for a file f that is not in Files returns an
\* unknown-file error value, not an impact result.
UnknownFileIsRejected ==
  (last.op = "analyze" /\ ~Includes(graph.files, last.file)) =>
    ~IsImpactResult(last.result)

\* The files whose Forward list holds f
ImportersOf(G, f) == {g \in Range(G.files) : Includes(MapGet(G.forward, g, <<>>), f)}

\* The risk level and the count it stands for agree on the four bands
InRiskBand(level, n) ==
  /\ level = "HIGH" <=> n >= 10
  /\ level = "MEDIUM" <=> (5 <= n /\ n <= 9)
  /\ level = "LOW" <=> (1 <= n /\ n <= 4)
  /\ level = "NONE" <=> n = 0

\* C24: getHubFiles(topN) returns min(topN, |Files|) entries in descending
\* dependentCount order; the dependentCount of an entry is the number of
\* distinct files that import its file, and its riskLevel the risk class of
\* that number.
HubFilesRankDistinctImporters ==
  last.op = "hubs" =>
    /\ Len(last.result) =
         (IF last.topN < Len(graph.files) THEN last.topN ELSE Len(graph.files))
    /\ \A i \in DOMAIN last.result : \A j \in DOMAIN last.result :
         i < j => last.result[i].dependentCount >= last.result[j].dependentCount
    /\ \A i \in DOMAIN last.result :
         With(Cardinality(ImportersOf(graph, toAbsolute(last.result[i].relativePath))),
              LAMBDA n : /\ last.result[i].dependentCount = n
                         /\ InRiskBand(last.result[i].riskLevel, n))

\* C28: in every analyzeImpact result, fresh or served from the cache,
\* riskLevel is HIGH iff totalImpacted >= 10, MEDIUM iff it is 5..9, LOW iff
\* it is 1..4 and NONE iff it is 0.
RiskLevelMatchesTotalImpacted ==
  last.op = "analyze" => InRiskBand(last.result.riskLevel, last.result.totalImpacted)

\* A cache hit for a file with exactly ten dependents
CachedResultAtHighThreshold ==
  /\ last.op = "analyze"
  /\ last.result.fromCache
  /\ last.result.totalImpacted = HighThreshold
  /\ last.result.riskLevel = "HIGH"

-----------------------------------------------------------------------------
(* Properties of the memo cache at a full invalidation *)

\* C27: invalidateAll, which is all resetMemoCache and so rebuildGraph do to
\* the memo cache, leaves it with no entry and an empty reverse index while
\* hits and misses keep their values; a get of any key then misses, and a
\* key comes back into the cache only by a set of that key.
InvalidateAllClearsAndKeepsCounters ==
  [][/\ last'.op = "invalidateAll" =>
          /\ memo' = resetMemoCache(memo)
          /\ DOMAIN memo'.cache = {}
          /\ DOMAIN memo'.reverseIndex = {}
          /\ stats(memo') = [size |-> 0, hits |-> memo.hits, misses |-> memo.misses]
          /\ \A k \in AllFiles : get(memo', k).entry = Undefined
     /\ \A k \in DOMAIN memo'.cache \ DOMAIN memo.cache :
          last'.op = "set" /\ last'.key = k]_vars

\* invalidateAll has emptied a cache that held entries and had counted a hit
\* and a miss
InvalidateAllOnUsedCache ==
  /\ last.op = "invalidateAll"
  /\ last.removed # {}
  /\ memo.hits > 0
  /\ memo.misses > 0

-----------------------------------------------------------------------------
(* Properties of the memoised analyser across edits *)

\* The last operation was a Modified event that removed the edge f -> t
ModifiedRemovedEdge(f, t) ==
  /\ last.op = "event"
  /\ last.type = "modified"
  /\ last.file = f
  /\ Includes(last.result.removedEdges, <<f, t>>)

\* C22: when a Modified event has removed the edge f -> t, the next
\* analyzeImpact(t) has fromCache = false and returns the dependents, total
\* and risk level of the graph after the event, whatever was cached for t
\* before the event.
RemovedEdgeDiscardsCachedTarget ==
  [][\A f \in AllFiles, t \in AllFiles :
       (ModifiedRemovedEdge(f, t) /\ last'.op = "analyze" /\ last'.file = t) =>
         /\ ~last'.result.fromCache
         /\ SameImpact(last'.result, freshImpact(t, graph))]_vars

\* The Modify of scenario S3 has just been applied, as the only edit made to
\* the project of S1: b no longer imports c
S3Modified ==
  /\ nEvents = 1
  /\ ModifiedRemovedEdge("b", "c")
  /\ last.result.addedEdges = <<>>
  /\ last.result.removedEdges = << <<"b", "c">> >>

\* C23: in scenario S3 (a imports b, b imports c, then b is rewritten
\* without its import of c), analyzeImpact(a) after the change returns no
\* direct dependent, since no file imports a; it is analyzeImpact(b) that
\* returns directDependents = [a] and nothing else.
S3DependentsAfterModify ==
  [][(S3Modified /\ last'.op = "analyze") =>
       /\ last'.file = "a" => /\ last'.result.directDependents = <<>>
                              /\ last'.result.transitiveDependents = <<>>
       /\ last'.file = "b" => /\ last'.result.directDependents = <<toRelative("a")>>
                              /\ last'.result.transitiveDependents = <<>>]_vars

\* The statement of C23 as the scenario words it: analyzeImpact(a) after
\* the change returns directDependents = [b]
S3DirectDependentsOfAIsB ==
  [][(S3Modified /\ last'.op = "analyze" /\ last'.file = "a") =>
       last'.result.directDependents = <<toRelative("b")>>]_vars

\* analyzeImpact(a) has been answered on the project of S1 after its single
\* edit, the rewrite of b without imports, was applied by the watcher
S3QueryOfAAfterModify ==
  /\ last.op = "analyze"
  /\ last.file = "a"
  /\ nEvents = 1
  /\ disk = [S1Project EXCEPT !["b"] = <<Code>>]
  /\ fcache = disk
  /\ graph.forward = [f \in AllFiles |-> IF f = "a" THEN <<"b">> ELSE <<>>]

-----------------------------------------------------------------------------
(* Properties of the graph the watcher holds *)

\* C29: also after a refresh_graph, the graph the watcher's incremental
\* updates mutate is the graph queries obtain from getGraph: when the
\* watcher has applied an event, the queried graph holds the file of the
\* event iff the file exists, with the imports the file now has as its
\* Forward list.
WatcherUpdatesQueriedGraph ==
  (last.op = "event" /\ last.type # "none") =>
    /\ Includes(graph.files, last.file) <=> Exists(disk, last.file)
    /\ Exists(disk, last.file) =>
         MapGet(graph.forward, last.file, <<>>) =
           SelectSeq(parseImports(disk, last.file), LAMBDA imp : Includes(graph.files, imp))

-----------------------------------------------------------------------------
(* Properties of the change-coupling miner *)

\* The history the last call found in its project root
CallHistory == vcs.repos[last.projectRoot][2]

\* The thresholds of the last call
CallMinSupport == OrDefault(last.options.minSupport, DEFAULT_MIN_SUPPORT)
CallMinConfidence == OrDefault(last.options.minConfidence, DEFAULT_MIN_CONFIDENCE)
CallMaxFiles == OrDefault(last.options.maxFilesPerCommit, DEFAULT_MAX_FILES_PER_COMMIT)

\* The source files a commit touched
SourceFilesOf(commit) == {f \in Range(commit) : isSourceFile(f)}

\* The commits the filter retains, and those with one source file
RetainedCommits ==
  {i \in DOMAIN CallHistory :
     /\ Cardinality(SourceFilesOf(CallHistory[i])) >= 2
     /\ Cardinality(SourceFilesOf(CallHistory[i])) <= CallMaxFiles}
SingleFileCommits ==
  {i \in DOMAIN CallHistory : Cardinality(SourceFilesOf(CallHistory[i])) = 1}

CoChangeCount(a, b) ==
  Cardinality({i \in RetainedCommits : {a, b} \subseteq SourceFilesOf(CallHistory[i])})
FileChangeCount(f) ==
  Cardinality({i \in RetainedCommits \cup SingleFileCommits :
                 f \in SourceFilesOf(CallHistory[i])})
MaxChanges(a, b) ==
  IF FileChangeCount(a) > FileChangeCount(b) THEN FileChangeCount(a)
  ELSE FileChangeCount(b)

\* The pairs of files in canonical order
CanonicalPairs ==
  {p \in Range(GitFiles) \X Range(GitFiles) :
     IndexOf(GitFiles, p[1]) < IndexOf(GitFiles, p[2])}

\* C25: a call of mineGitHistory that mines the history emits a pair {a,b},
\* once and in canonical order, if and only if its co-change count over the
\* retained commits is at least minSupport and that count divided by the
\* larger of the two files' change counts is at least minConfidence; the
\* confidence of an emitted pair is that quotient and lies in [0,1].
MinerEmitsPairsAboveThresholds ==
  (last.op = "mine" /\ last.mined /\ vcs.repos[last.projectRoot][1] = "log") =>
    /\ \A p \in CanonicalPairs :
         (\E i \in DOMAIN last.result.couplings :
            /\ last.result.couplings[i].file1 = p[1]
            /\ last.result.couplings[i].file2 = p[2])
         <=> (/\ CoChangeCount(p[1], p[2]) >= CallMinSupport
              /\ CoChangeCount(p[1], p[2]) * CallMinConfidence[2]
                   >= CallMinConfidence[1] * MaxChanges(p[1], p[2]))
    /\ \A i \in DOMAIN last.result.couplings :
         LET c == last.result.couplings[i] IN
           /\ <<c.file1, c.file2>> \in CanonicalPairs
           /\ \A j \in DOMAIN last.result.couplings :
                (last.result.couplings[j].file1 = c.file1
                 /\ last.result.couplings[j].file2 = c.file2) => j = i
           /\ c.coChangeCount = CoChangeCount(c.file1, c.file2)
           /\ c.support = c.coChangeCount
           /\ c.confidence[2] > 0
           /\ c.confidence[1] * MaxChanges(c.file1, c.file2)
                = CoChangeCount(c.file1, c.file2) * c.confidence[2]
           /\ 0 <= c.confidence[1]
           /\ c.confidence[1] <= c.confidence[2]

\* Scenario S5 mined with the defaults: the one coupling {A,B} with
\* coChangeCount 3 and confidence 3/4
S5MinedWithDefaults ==
  /\ last.op = "mine"
  /\ last.mined
  /\ last.options = NoOptions
  /\ CallHistory = S5History
  /\ Len(last.result.couplings) = 1
  /\ last.result.couplings[1].file1 = "A"
  /\ last.result.couplings[1].file2 = "B"
  /\ last.result.couplings[1].coChangeCount = 3
  /\ last.result.couplings[1].confidence = <<3, 4>>

\* C26: a call of mineGitHistory for a root reuses the result computed for
\* that root when less than five minutes have passed since it was computed
\* and invalidateCouplingCache was not called since; in every other case, a
\* different root included, it mines again; a root without version control
\* yields the empty result, reused under the same rule.
CouplingResultReusedPerRoot ==
  [][last'.op = "mine" =>
       LET root == last'.projectRoot
           valid == /\ MapHas(last.minedAt, root)
                    /\ vcs.now - last.minedAt[root] < CACHE_TTL_MS
       IN /\ ~last'.mined <=> valid
          /\ ~last'.mined => last'.result.analyzedAt = last.minedAt[root]
          /\ last'.mined => last'.result.analyzedAt = vcs.now
          /\ vcs.repos[root] \in {NotARepo, LogFails} =>
               /\ last'.result.couplings = <<>>
               /\ last'.result.totalCommitsAnalyzed = 0]_vars

\* C30: every coupling of the result of mineGitHistory(root, options) has at
\* least the minSupport and the minConfidence of that call, whatever calls
\* were made before it.
ResultMeetsThresholdsOfItsCall ==
  last.op = "mine" =>
    \A i \in DOMAIN last.result.couplings :
      /\ last.result.couplings[i].coChangeCount >= CallMinSupport
      /\ ~RatLess(last.result.couplings[i].confidence, CallMinConfidence)

-----------------------------------------------------------------------------
(* Frame of the incremental updater *)

\* C31: when the watcher adds a file f that is not yet in Files, the graph
\* changes only in Files (f is appended), Forward[f], Reverse[f] and the
\* Reverse lists of the files f imports; the Forward list of every other
\* file stays as it was, also when that file's source text imports f.
AddFileTouchesOnlyItsOwnEdges ==
  [][(last'.op = "event" /\ last'.type = "added"
      /\ ~Includes(graph.files, last'.file)) =>
       LET f == last'.file
           deps == Range(graph'.forward[f])
       IN /\ graph'.files = Append(graph.files, f)
          /\ DOMAIN graph'.forward = DOMAIN graph.forward \cup {f}
          /\ \A g \in DOMAIN graph'.forward \ {f} : graph'.forward[g] = graph.forward[g]
          /\ deps \subseteq Range(graph'.files)
          /\ \A g \in (DOMAIN graph.reverse \cup DOMAIN graph'.reverse) \ ({f} \cup deps) :
               /\ MapHas(graph.reverse, g) <=> MapHas(graph'.reverse, g)
               /\ MapHas(graph.reverse, g) => graph'.reverse[g] = graph.reverse[g]]_vars

\* The watcher has added a file that the source text of another file of
\* the graph imports, and that file's Forward list does not hold it
AddedFileWithUnlinkedImporter ==
  /\ last.op = "event"
  /\ last.type = "added"
  /\ last.result.updatedFile = last.file
  /\ Includes(graph.files, last.file)
  /\ \E g \in Range(graph.files) \ {last.file} :
       /\ Includes(parseImports(disk, g), last.file)
       /\ fcache[g] = disk[g]
       /\ ~Includes(graph.forward[g], last.file)

-----------------------------------------------------------------------------
(* Properties of the condensed graph *)

\* Some file of component u has a Forward edge to some file of component v
FileEdgeBetween(G, u, v) ==
  \E file \in Range(G.scc.components[u]), dep \in Range(G.scc.components[v]) :
    Includes(MapGet(G.forward, file, <<>>), dep)

-----------------------------------------------------------------------------
(* The two graph builders *)

\* C33: for the same project, buildGraphAsync produces the Files, Forward
\* and Reverse that buildGraph produces, also when the project has several
\* source directories and a file of one directory imports a file of a
\* directory enumerated later.
BuildersAgree ==
  last.op = "buildGraphAsync" =>
    LET g == buildGraphIn(watch.sourceDirs, disk, last.maxFiles)
    IN /\ graph.files = g.files
       /\ graph.forward = g.forward
       /\ graph.reverse = g.reverse

-----------------------------------------------------------------------------
(* Shape of an impact result *)

\* C34: in every result of analyzeImpact(f), fresh or served from the
\* cache, directDependents and transitiveDependents are disjoint, neither
\* holds f, neither holds a file twice, and totalImpacted is the sum of
\* their lengths.
ImpactListsAreDisjointAndCounted ==
  (last.op = "analyze" /\ IsImpactResult(last.result)) =>
    LET direct == last.result.directDependents
        transitive == last.result.transitiveDependents
    IN /\ Range(direct) \cap Range(transitive) = {}
       /\ ~Includes(direct, toRelative(last.file))
       /\ ~Includes(transitive, toRelative(last.file))
       /\ Cardinality(Range(direct)) = Len(direct)
       /\ Cardinality(Range(transitive)) = Len(transitive)
       /\ last.result.totalImpacted = Len(direct) + Len(transitive)

-----------------------------------------------------------------------------
(* The counting loop of the miner *)

\* By how much the last iteration raised the change count of file f and the
\* co-change count of pair key p
FileCountRaise(f) ==
  MapGet(last.counts.fileChangeCount.count, f, 0)
    - MapGet(last.before.fileChangeCount.count, f, 0)
PairCountRaise(p) ==
  MapGet(last.counts.pairCoChangeCount.count, p, 0)
    - MapGet(last.before.pairCoChangeCount.count, p, 0)

\* C35: a commit with exactly one remaining source file raises that file's
\* change count by one and no pair count; a commit with more than
\* maxFilesPerCommit remaining files raises no count; a commit with between
\* 2 and maxFilesPerCommit remaining files raises the change count of each
\* of its files by one and the count of each unordered pair of its files by
\* one, and nothing else.
CommitCountsByItsSize ==
  last.op = "count" =>
    LET src == SourceFilesOf(last.commitFiles)
        n == Cardinality(src)
        retained == n >= 2 /\ n <= last.maxFilesPerCommit
        pairKeys == CanonicalPairs \cup DOMAIN last.counts.pairCoChangeCount.count
    IN /\ n = 1 =>
            /\ \A f \in Range(GitFiles) : FileCountRaise(f) = IF f \in src THEN 1 ELSE 0
            /\ \A p \in pairKeys : PairCountRaise(p) = 0
       /\ n > last.maxFilesPerCommit =>
            /\ \A f \in Range(GitFiles) : FileCountRaise(f) = 0
            /\ \A p \in pairKeys : PairCountRaise(p) = 0
       /\ retained =>
            /\ \A f \in Range(GitFiles) : FileCountRaise(f) = IF f \in src THEN 1 ELSE 0
            /\ \A p \in pairKeys :
                 PairCountRaise(p) =
                   IF p \in CanonicalPairs /\ {p[1], p[2]} \subseteq src THEN 1 ELSE 0

\* A commit of three source files has been skipped under the limit 2, after
\* earlier commits had raised pair counts
CommitOfThreeSkipped ==
  /\ last.op = "count"
  /\ last.before.totalCommitsAnalyzed > 0
  /\ Cardinality(SourceFilesOf(last.commitFiles)) = 3
  /\ last.maxFilesPerCommit = 2
  /\ last.before.pairCoChangeCount.keys # <<>>

-----------------------------------------------------------------------------
(* Shape of a coupling result *)

\* C36: in every coupling result each coupling has file1 < file2, no
\* unordered pair appears more than once, and the per-file index of a file x
\* holds exactly the couplings that have x as file1 or as file2, each once,
\* ordered by confidence descending.
CouplingResultIsCanonicalAndIndexed ==
  last.op = "mine" =>
    LET K == last.result.couplings
        byFile(x) == MapGet(last.result.fileCouplings, x, <<>>)
    IN /\ \A i \in DOMAIN K :
            /\ <<K[i].file1, K[i].file2>> \in CanonicalPairs
            /\ \A j \in DOMAIN K :
                 {K[i].file1, K[i].file2} = {K[j].file1, K[j].file2} => i = j
       /\ DOMAIN last.result.fileCouplings \subseteq Range(GitFiles)
       /\ \A x \in Range(GitFiles) :
            /\ Range(byFile(x)) = {c \in Range(K) : c.file1 = x \/ c.file2 = x}
            /\ Cardinality(Range(byFile(x))) = Len(byFile(x))
            /\ \A i \in DOMAIN byFile(x), j \in DOMAIN byFile(x) :
                 i < j => ~RatLess(byFile(x)[i].confidence, byFile(x)[j].confidence)

\* A mined result in which one file has two couplings of different
\* confidence, one with the file as file1 and one with it as file2
FileWithTwoCouplings ==
  /\ last.op = "mine"
  /\ last.mined
  /\ \E x \in DOMAIN last.result.fileCouplings :
       /\ Len(last.result.fileCouplings[x]) = 2
       /\ RatLess(last.result.fileCouplings[x][2].confidence,
                  last.result.fileCouplings[x][1].confidence)
       /\ \E i, j \in 1..2 : /\ last.result.fileCouplings[x][i].file1 = x
                             /\ last.result.fileCouplings[x][j].file2 = x

-----------------------------------------------------------------------------
(* The diff of an event *)

\* The lines of a content of an event: an absent content and an empty file
\* have none
ContentLines(content) == IF content = Undefined THEN <<>> ELSE content[1]

\* The diff of the last event has one entry for line i exactly when line i
\* differs between old and new content or exists in only one of them:
\* changed with both texts, added with the new text, removed with the old
DiffEntriesMatchLines ==
  LET old == ContentLines(last.oldContent)
      new == ContentLines(last.newContent)
      D == last.diff
  IN /\ \A i \in DOMAIN old \cup DOMAIN new :
          (\E k \in DOMAIN D : D[k].line = i)
            <=> (i \notin DOMAIN old \/ i \notin DOMAIN new \/ old[i] # new[i])
     /\ \A k \in DOMAIN D :
          /\ D[k].line \in DOMAIN old \cup DOMAIN new
          /\ \A j \in DOMAIN D : D[j].line = D[k].line => j = k
          /\ IF D[k].line \in DOMAIN old /\ D[k].line \in DOMAIN new
             THEN /\ D[k].type = "changed"
                  /\ D[k].old = Some(old[D[k].line])
                  /\ D[k].new = Some(new[D[k].line])
             ELSE IF D[k].line \in DOMAIN new
             THEN /\ D[k].type = "added"
                  /\ D[k].new = Some(new[D[k].line])
                  /\ D[k].old = Undefined
             ELSE /\ D[k].type = "removed"
                  /\ D[k].old = Some(old[D[k].line])
                  /\ D[k].new = Undefined

\* C37: the diff of an event has an entry for the 1-based line i iff line i
\* differs between the old and the new content or exists in only one of
\* them, Changed, Added (numbered in the new content) or Removed (numbered
\* in the old content) accordingly; and the diff is empty iff old and new
\* content are equal.
DiffIsEmptyIffContentsEqual ==
  (last.op = "event" /\ last.type # "none") =>
    /\ DiffEntriesMatchLines
    /\ last.diff = <<>> <=> last.oldContent = last.newContent

\* What computeDiff does give: the entries line by line, and an empty diff
\* iff both contents have the same lines, an absent content and an empty
\* file both having none
DiffIsEmptyIffSameLines ==
  (last.op = "event" /\ last.type # "none") =>
    /\ DiffEntriesMatchLines
    /\ last.diff = <<>> <=> ContentLines(last.oldContent) = ContentLines(last.newContent)

\* An empty file has been added: the old content is absent, the new one is
\* the empty string, and the diff is empty
EmptyFileAdded ==
  /\ last.op = "event"
  /\ last.type = "added"
  /\ last.oldContent = Undefined
  /\ last.newContent = Some(<<>>)
  /\ last.diff = <<>>

\* A modification whose diff has a changed and an added line
ModifiedWithChangedAndAddedLine ==
  /\ last.op = "event"
  /\ last.type = "modified"
  /\ \E j, k \in DOMAIN last.diff : /\ last.diff[j].type = "changed"
                                     /\ last.diff[k].type = "added"

-----------------------------------------------------------------------------
(* The build gate and the warning store *)

\* The warnings of store s that were not acknowledged and concern none of
\* the files: those a gateCheck of the files did not evaluate
NotEvaluated(s, files) ==
  {i \in DOMAIN s : /\ ~s[i].acknowledged
                    /\ \A f \in Range(files) : ~warningConcerns(s[i], f)}

\* C38: gateCheck never marks as acknowledged a warning it did not evaluate:
\* after a gateCheck with specifiedFiles that returned PASS, the warnings that
\* were unacknowledged and concern other files are still unacknowledged.
GateAcknowledgesOnlyEvaluated ==
  (/\ last.op = "gateCheck"
   /\ last.specifiedFiles # Undefined
   /\ last.result.verdict = "PASS") =>
    \A i \in NotEvaluated(last.before, last.specifiedFiles[1]) :
      /\ i \in DOMAIN warningStore
      /\ ~warningStore[i].acknowledged

\* Whatever the verdict, a warning that was stored stays stored in its
\* place, and only PASS acknowledges
GateKeepsStoreUnlessPass ==
  last.op = "gateCheck" =>
    /\ Len(warningStore) = Len(last.before)
    /\ last.result.verdict # "PASS" => warningStore = last.before
    /\ last.result.verdict = "PASS" =>
         /\ \A i \in DOMAIN warningStore : warningStore[i].acknowledged
         /\ last.result.autoAcknowledged
              = Len(getUnacknowledgedWarnings(last.before))

-----------------------------------------------------------------------------
(* What the traversals visit *)

\* The number of times x occurs in the sequence s
Occurrences(s, x) == Cardinality({i \in DOMAIN s : s[i] = x})

\* C39: computeSCC, analyzeImpact on its plain-BFS and SCC-aware paths and
\* computeAffectedFiles come to an end on every graph, cycles, self-imports
\* and repeated edges included, and visit every file a bounded number of
\* times: strongConnect is entered once for each file; computeAffectedFiles
\* takes each file from its queue at most once, and only files it returns;
\* analyzeImpactBFS takes a direct dependent as often as the reverse list of
\* the file names it and any other file at most once; analyzeImpactWithSCC
\* takes each SCC at most once.
TraversalsVisitEachFileBoundedly ==
  /\ last.op = "computeSCC" =>
       /\ Len(last.entered) = Len(graph.files)
       /\ \A f \in Range(graph.files) : Occurrences(last.entered, f) = 1
  /\ last.op = "computeAffectedFiles" =>
       /\ last.shifted = last.result
       /\ \A f \in Range(last.shifted) : Occurrences(last.shifted, f) = 1
       /\ Range(last.shifted) \subseteq Range(graph.files) \cup {last.file}
  /\ last.op = "analyzeImpactBFS" =>
       LET directDependents == MapGet(graph.reverse, last.file, <<>>) IN
         /\ \A f \in Range(last.shifted) :
              Occurrences(last.shifted, f)
                = IF Includes(directDependents, f) THEN Occurrences(directDependents, f)
                  ELSE 1
         /\ Range(last.shifted) \subseteq Range(graph.files)
         /\ Len(last.shifted) <= Len(directDependents) + Len(graph.files)
  /\ last.op = "analyzeImpactWithSCC" =>
       /\ \A c \in Range(last.shifted) : Occurrences(last.shifted, c) = 1
       /\ Range(last.shifted) \subseteq DOMAIN graph.scc.condensed.nodes

\* analyzeImpactBFS has run for a file that imports itself, lies on a cycle
\* with another file and is imported twice by it
BFSOverCycleSelfImportAndRepeatedEdge ==
  /\ last.op = "analyzeImpactBFS"
  /\ Includes(MapGet(graph.reverse, last.file, <<>>), last.file)
  /\ \E g \in Range(graph.files) \ {last.file} :
       /\ Occurrences(MapGet(graph.reverse, last.file, <<>>), g) = 2
       /\ Includes(MapGet(graph.forward, last.file, <<>>), g)
       /\ Occurrences(last.shifted, g) = 2

=============================================================================
